---- MODULE Spec2Model ----
(***************************************************************************)
(* A model of the lokr API server (api/src): the file tree and its         *)
(* permission queries, the upload pipeline, shares and sessions.  The       *)
(* relational store is modelled by one variable per table, the blob store  *)
(* by the set of file ids that have a blob under uploads/.                 *)
(***************************************************************************)
EXTENDS Integers, FiniteSets, Sequences, TLC

(* ------------------------------------------------------------------ *)
(* Bounds of the model                                                  *)
(* ------------------------------------------------------------------ *)
MaxFiles == 2
MaxLinks == 1
MaxTime == 3
MaxSessions == 2
IdleDuration == 2
NameLen == 24
TotalSpace == 2000000
MaxChunks == 2
MaxTx == 2

(* ------------------------------------------------------------------ *)
(* Program constants                                                    *)
(* ------------------------------------------------------------------ *)
ROOT_FILE_ENCRYPTED_KEY_LENGTH == 512
CHILD_FILE_ENCRYPTED_KEY_LENGTH == 48
NONCE_LENGTH == 12
AutoLinkExpires == 60 * 60 * 24
MIN_CHUNK_SIZE == 524288
MAX_FILE_SIZE == 1000000000

(* Option::None of the id, string and time columns *)
NoFile == 0
NoLink == 0
NoUser == "none"
NoCred == "none"
NoHash == "none"
NoTime == 0 - 1
NoSecret == 0
NoCode == <<>>

\* seconds of one TOTP step, and the steps of skew check_current accepts
TotpStep == 30
TotpSkew == 1
\* secrets Secret::generate_secret hands out
MaxSecrets == 2

Users == {"alice", "bob"}
Passwords == {"pw"}

VARIABLES
    file,               \* table file: id -> row
    share_user,         \* table share_user: set of rows
    share_link,         \* table share_link: set of rows
    user,               \* table user: id -> [used_space, total_space]
    uploads,            \* blob store: ids with a blob at uploads/{id}
    now,                \* CURRENT_TIMESTAMP
    nextFile,           \* next fresh file id (Uuid::now_v7)
    nextLink,           \* next fresh link id (Uuid::new_v4)
    session,            \* table session: id -> row
    nextSession,        \* next fresh session id (Uuid::new_v4)
    upload_transaction, \* table upload_transaction: id -> row
    chunks,             \* chunk files: <<tx, n>> -> bytes of transactions/{tx}/{n}
    tx_dirs,            \* transaction directories: ids with transactions/{tx}/
    nextTx,             \* next fresh transaction id (Uuid::new_v4)
    inflight,           \* requests between their statements
    origin,             \* the file table as a client has read it last
    last                \* the last request and its response

sessionVars == <<session, nextSession>>

chunkVars == <<upload_transaction, chunks, tx_dirs, nextTx>>

vars == <<file, share_user, share_link, user, uploads, now, nextFile, nextLink,
          session, nextSession, upload_transaction, chunks, tx_dirs, nextTx,
          inflight, origin, last>>

(* ------------------------------------------------------------------ *)
(* Pure helpers                                                         *)
(* ------------------------------------------------------------------ *)

\* length of the base64 text of n bytes
B64Len(n) == 4 * ((n + 2) \div 3)

\* argon2 hash_password(..).to_string(): a PHC string, never the password
Hash(p) == "$argon2id$" \o p

\* check_nonce!: the decoded nonce has exactly NONCE_LENGTH bytes
check_nonce(n) == n = NONCE_LENGTH

Ids == DOMAIN file

RECURSIVE Walk(_, _)
Walk(f, seen) ==
    IF f = NoFile \/ f \notin Ids \/ f \in seen THEN seen
    ELSE Walk(file[f].parent_id, seen \cup {f})

\* WITH RECURSIVE ancestors: the file and every file above it
Ancestors(f) == Walk(f, {})

RECURSIVE Loops(_, _)
Loops(f, seen) ==
    IF f = NoFile \/ f \notin Ids THEN FALSE
    ELSE IF f \in seen THEN TRUE
    ELSE Loops(file[f].parent_id, seen \cup {f})

\* the UNION ALL recursion of the ancestors query never ends on a parent cycle
AncestorsDiverge(f) == Loops(f, {})

RECURSIVE Grow(_)
Grow(S) ==
    LET T == S \cup {c \in Ids : file[c].parent_id \in S}
    IN IF T = S THEN S ELSE Grow(T)

\* WITH RECURSIVE descendants / children: the file and every file below it
Descendants(f) == IF f \in Ids THEN Grow({f}) ELSE {}

\* share_user's join without the test of su.edit_permission
SuAny(a, uuid) ==
    \E su \in share_user : su.file_id = a /\ su.user_id = uuid

\* LEFT JOIN share_user su ON su.file_id = file.id AND su.user_id = ? ; su.edit_permission
SuEdit(a, uuid) ==
    \E su \in share_user : su.file_id = a /\ su.user_id = uuid /\ su.edit_permission

\* the join condition of share_link in the permission queries that test the password
SlJoin(sl, a, link_id, link_password) ==
    /\ sl.file_id = a
    /\ link_id # NoLink /\ sl.id = link_id
    /\ (sl.expires_at = NoTime \/ sl.expires_at >= now)
    /\ (sl.password_hash = NoHash
        \/ (link_password # NoCred /\ sl.password_hash = link_password))

SlEdit(a, link_id, link_password) ==
    \E sl \in share_link : SlJoin(sl, a, link_id, link_password) /\ sl.edit_permission

\* the join condition of share_link in update_file's query on the new parent
SlJoinMove(sl, a, link_id) ==
    /\ sl.file_id = a
    /\ link_id # NoLink /\ sl.id = link_id
    /\ (sl.expires_at = NoTime \/ sl.expires_at >= now)

SlEditMove(a, link_id) ==
    \E sl \in share_link : SlJoinMove(sl, a, link_id) /\ sl.edit_permission

\* owner_id = ? (never true of a NULL on either side)
OwnedBy(a, uuid) == uuid # NoUser /\ file[a].owner_id = uuid

\* rows of get_owner_from_parent's query
ParentRows(parent_id, uuid, link_id, link_password) ==
    {a \in Ancestors(parent_id) :
        OwnedBy(a, uuid) \/ SuEdit(a, uuid) \/ SlEdit(a, link_id, link_password)}

\* the target query without "su.file_id != ?" and "sl.file_id != ?"
TargetRowsAnyEdge(id, uuid, link_id, link_password) ==
    {a \in Ancestors(id) :
        OwnedBy(a, uuid) \/ SuEdit(a, uuid) \/ SlEdit(a, link_id, link_password)}

\* rows of the query of delete_file and of update_file on the target
TargetRows(id, uuid, link_id, link_password) ==
    {a \in Ancestors(id) :
        \/ OwnedBy(a, uuid)
        \/ (SuEdit(a, uuid) /\ a # id)
        \/ (SlEdit(a, link_id, link_password) /\ a # id)}

\* rows of update_file's query on the new parent of a Move
MoveRows(parent_id, id, uuid, link_id) ==
    {a \in Ancestors(parent_id) \ Descendants(id) :
        OwnedBy(a, uuid) \/ SuEdit(a, uuid) \/ SlEditMove(a, link_id)}

\* is_owner(pool, user, file)
is_owner(uuid, id) == id \in Ids /\ file[id].owner_id = uuid

\* check_space's row_space: the lengths of the stored strings, 1 for each NULL
RowSpace(m) ==
    (IF m.file_nonce = 0 THEN 1 ELSE B64Len(m.file_nonce))
    + (IF m.key_nonce = 0 THEN 1 ELSE B64Len(m.key_nonce))
    + B64Len(m.name_nonce)
    + 1
    + B64Len(m.encrypted_key)
    + NameLen
    + 1

\* check_upload_metadata
check_upload_metadata(m, authenticated) ==
    /\ m.encrypted_key <= ROOT_FILE_ENCRYPTED_KEY_LENGTH
    /\ IF authenticated
       THEN ~ \/ (m.parent_id # NoFile /\ m.encrypted_key # CHILD_FILE_ENCRYPTED_KEY_LENGTH)
              \/ (m.parent_id = NoFile /\ m.encrypted_key # ROOT_FILE_ENCRYPTED_KEY_LENGTH)
       ELSE m.encrypted_key = CHILD_FILE_ENCRYPTED_KEY_LENGTH
    /\ check_nonce(m.name_nonce)
    /\ (m.file_nonce # 0 => check_nonce(m.file_nonce))
    /\ (m.key_nonce # 0 => check_nonce(m.key_nonce))
    /\ m.is_directory # (m.file_nonce # 0)

\* the space the store charges to the owner of a row
Charge(row) == row.size + RowSpace(row)

\* a request and its response; set_cookie is what the Set-Cookie headers of
\* the response do ("none": no such header), message the text of a UserError,
\* files the file metadata in the body, as pairs <<id, parent_id>>
Response(op, uuid, id, arg, link_id, cred, status) ==
    [op |-> op, uuid |-> uuid, id |-> id, arg |-> arg,
     link_id |-> link_id, cred |-> cred, status |-> status, set_cookie |-> "none",
     message |-> "", files |-> {}]

\* IntoResponse for AppError: the status, and the cookie-clearing headers of AuthError
into_response(r, err) ==
    IF err = "AuthError" THEN [r EXCEPT !.status = 401, !.set_cookie = "clear"]
    ELSE IF err \in {"Generic", "SqlxError"} THEN [r EXCEPT !.status = 500]
    ELSE r

\* AppError::UserError((StatusCode::NOT_FOUND, message.into()))
NotFound(r, message) == [r EXCEPT !.status = 404, !.message = message]

\* the handlers of the file tree and of shares answer, and leave sessions and
\* upload transactions alone
Reply(r) == last' = r /\ UNCHANGED <<sessionVars, chunkVars, inflight, origin>>

RECURSIVE SumCharge(_)
SumCharge(S) ==
    IF S = {} THEN 0
    ELSE LET d == CHOOSE x \in S : TRUE IN Charge(file[d]) + SumCharge(S \ {d})

\* the store's accounting of used_space when a file row is inserted
Charged(owner_id, row) ==
    IF owner_id = NoUser THEN user
    ELSE [user EXCEPT ![owner_id].used_space = @ + Charge(row)]

\* the store's accounting of used_space when file rows are deleted
Refunded(deleted) ==
    [u \in DOMAIN user |->
        [user[u] EXCEPT !.used_space =
            @ - SumCharge({d \in deleted : file[d].owner_id = u})]]

\* check_space: TRUE when the owner has room for the row and the bytes
check_space(m, owner_id, file_size) ==
    ~ (user[owner_id].used_space + RowSpace(m) + file_size > user[owner_id].total_space)

\* the row upload_file inserts
FileRow(m, owner_id, file_size) ==
    [parent_id |-> m.parent_id, owner_id |-> owner_id, is_directory |-> m.is_directory,
     encrypted_name |-> m.encrypted_file_name, encrypted_key |-> m.encrypted_key,
     key_nonce |-> m.key_nonce, name_nonce |-> m.name_nonce,
     file_nonce |-> m.file_nonce, size |-> file_size]

\* the row share_with_link inserts
LinkRow(id, file_id, expires, password, edit) ==
    [id |-> id, file_id |-> file_id,
     expires_at |-> IF expires > 0 THEN now + expires ELSE NoTime,
     password_hash |-> IF password = NoCred THEN NoHash ELSE Hash(password),
     edit_permission |-> edit]

(* ------------------------------------------------------------------ *)
(* Initial state: an empty store with the registered users              *)
(* ------------------------------------------------------------------ *)
\* a row of table user after register_user: the password is hashed, the TOTP
\* columns have their defaults
UserRow(used_space) ==
    [used_space |-> used_space, total_space |-> TotalSpace,
     password_hash |-> Hash("password1"),
     totp_enabled |-> FALSE, totp_verified |-> FALSE, totp_secret |-> NoSecret]

NoRequest == Response("none", NoUser, NoFile, NoFile, NoLink, NoCred, 0)

Init ==
    /\ file = <<>>
    /\ share_user = {}
    /\ share_link = {}
    /\ user = [u \in Users |-> UserRow(0)]
    /\ uploads = {}
    /\ now = 0
    /\ nextFile = 1
    /\ nextLink = 1
    /\ session = <<>>
    /\ nextSession = 1
    /\ upload_transaction = <<>>
    /\ chunks = <<>>
    /\ tx_dirs = {}
    /\ nextTx = 1
    /\ inflight = {}
    /\ origin = <<>>
    /\ last = NoRequest

(* ------------------------------------------------------------------ *)
(* upload_file (POST /api/upload), the whole handler                    *)
(* ------------------------------------------------------------------ *)

\* the blob store once the file part is written to uploads/{file_id}; the part
\* is skipped when the metadata names a directory
Staged(m, file_id) == IF m.is_directory THEN uploads ELSE uploads \cup {file_id}

\* an error arm that removes nothing
cleanupSkipped(blobs, file_id) == blobs

\* cleanup(file_path): the staged blob is removed, a missing one ignored
cleanup(blobs, file_id) == blobs \ {file_id}

\* upload_file's error arm: the transaction is rolled back, cleanup runs
UploadError(r, m, file_id) ==
    /\ Reply(r)
    /\ uploads' = cleanup(Staged(m, file_id), file_id)
    /\ UNCHANGED <<file, share_user, share_link, user, now, nextFile, nextLink>>

\* UploadMetadata::process_upload_transaction after the owner is resolved
UploadCommit(r, m, owner_id, file_id, file_size, busy) ==
    IF owner_id # NoUser /\ ~check_space(m, owner_id, file_size)
    THEN UploadError([r EXCEPT !.status = 402], m, file_id)
    ELSE IF busy
    THEN UploadError([r EXCEPT !.status = 500], m, file_id)
    ELSE /\ owner_id = NoUser /\ m.parent_id = NoFile => nextLink <= MaxLinks
         /\ file' = file @@ (file_id :> FileRow(m, owner_id, file_size))
         /\ user' = Charged(owner_id, FileRow(m, owner_id, file_size))
         /\ IF owner_id = NoUser /\ m.parent_id = NoFile
            THEN /\ share_link' = share_link \cup
                        {LinkRow(nextLink, file_id, AutoLinkExpires, NoCred, FALSE)}
                 /\ nextLink' = nextLink + 1
            ELSE UNCHANGED <<share_link, nextLink>>
         /\ uploads' = Staged(m, file_id)
         /\ nextFile' = nextFile + 1
         /\ Reply([r EXCEPT !.status = 200])
         /\ UNCHANGED <<share_user, now>>

UploadFile(uuid, m, link_id, link_password, file_size, busy) ==
    LET file_id == nextFile
        \* the file part is skipped when the metadata names a directory
        size == IF m.is_directory THEN 0 ELSE file_size
        r == Response("upload", uuid, file_id, m.parent_id, link_id, link_password, 0)
    IN
    IF ~check_upload_metadata(m, uuid # NoUser)
    THEN UploadError([r EXCEPT !.status = 400], m, file_id)
    ELSE IF m.parent_id = NoFile
    THEN UploadCommit(r, m, uuid, file_id, size, busy)
    ELSE IF AncestorsDiverge(m.parent_id)
    THEN \* the query never returns: the request is dropped with the blob staged
         /\ Reply(r)
         /\ uploads' = Staged(m, file_id)
         /\ nextFile' = nextFile + 1
         /\ UNCHANGED <<file, share_user, share_link, user, now, nextLink>>
    ELSE IF ParentRows(m.parent_id, uuid, link_id, link_password) = {}
    THEN UploadError(NotFound(r, "Parent file not found!"), m, file_id)
    ELSE \E a \in ParentRows(m.parent_id, uuid, link_id, link_password) :
             IF ~file[a].is_directory \/ m.key_nonce = 0
             THEN UploadError([r EXCEPT !.status = 400], m, file_id)
             ELSE UploadCommit(r, m, file[a].owner_id, file_id, size, busy)

(* ------------------------------------------------------------------ *)
(* delete_file (DELETE /api/file/{id})                                  *)
(* ------------------------------------------------------------------ *)
\* the transaction of upload_file run once, a conflict answered at once
retry_never(u, busy) ==
    /\ u \in inflight
    /\ UploadFile(u.uuid, u.upload, NoLink, NoCred, u.file_size, busy)

\* upload_file with its transaction run by retry_transaction_fn: u is the
\* request and the retries made so far, busy tells whether the store reports
\* a busy snapshot to the statement that writes. A conflict before the fifth
\* retry rolls the transaction back and the closure is run again after the
\* backoff; every other result of the closure is the result of the request.
retry_transaction_fn(u, busy) ==
    LET closure(b) == UploadFile(u.uuid, u.upload, NoLink, NoCred, u.file_size, b)
        conflict == busy /\ ENABLED (closure(TRUE) /\ last'.status = 500)
    IN
    /\ u \in inflight
    /\ IF conflict /\ u.attempt < 5
       THEN /\ inflight' = (inflight \ {u}) \cup {[u EXCEPT !.attempt = @ + 1]}
            /\ UNCHANGED <<file, share_user, share_link, user, uploads, now, nextFile,
                           nextLink, sessionVars, chunkVars, origin, last>>
       ELSE closure(busy)

Refuse(r) ==
    /\ Reply(r)
    /\ UNCHANGED <<file, share_user, share_link, user, uploads, now, nextFile, nextLink>>

DeleteFile(uuid, id, link_id, link_password) ==
    LET r == Response("delete", uuid, id, NoFile, link_id, link_password, 0)
        gone == Descendants(id)
    IN
    IF AncestorsDiverge(id) THEN Refuse(r)
    ELSE IF TargetRows(id, uuid, link_id, link_password) = {}
    THEN Refuse(NotFound(r, "File not found"))
    ELSE /\ file' = [f \in Ids \ gone |-> file[f]]
         /\ share_user' = {su \in share_user : su.file_id \notin gone}
         /\ share_link' = {sl \in share_link : sl.file_id \notin gone}
         /\ user' = Refunded(gone)
         /\ uploads' = uploads \ {d \in gone : ~file[d].is_directory}
         /\ Reply([r EXCEPT !.status = 200])
         /\ UNCHANGED <<now, nextFile, nextLink>>

\* delete_file up to its second statement: the permission query returned a
\* row and the descendants are read; the request waits to run its DELETE
DeleteListed(uuid, id, link_id, link_password) ==
    /\ ~AncestorsDiverge(id)
    /\ TargetRows(id, uuid, link_id, link_password) # {}
    /\ inflight' = inflight \cup
            {[request |-> Response("delete", uuid, id, NoFile, link_id, link_password, 0),
              descendant_files |-> {d \in Descendants(id) : ~file[d].is_directory}]}
    /\ UNCHANGED <<file, share_user, share_link, user, uploads, now, nextFile, nextLink,
                   sessionVars, chunkVars, origin, last>>

\* the rest of delete_file: DELETE FROM file WHERE id = ? with the store's
\* cascade over the rows that are below the file now, then remove_file of the
\* blobs that were read before, a missing blob ignored
DeleteCommitted(d) ==
    LET gone == Descendants(d.request.id)
    IN
    /\ d \in inflight
    /\ inflight' = inflight \ {d}
    /\ file' = [f \in Ids \ gone |-> file[f]]
    /\ share_user' = {su \in share_user : su.file_id \notin gone}
    /\ share_link' = {sl \in share_link : sl.file_id \notin gone}
    /\ user' = Refunded(gone)
    /\ uploads' = uploads \ d.descendant_files
    /\ last' = [d.request EXCEPT !.status = 200]
    /\ UNCHANGED <<now, nextFile, nextLink, sessionVars, chunkVars, origin>>

(* ------------------------------------------------------------------ *)
(* update_file (PUT /api/file/{id}): Move and Rename                    *)
(* ------------------------------------------------------------------ *)
MoveBody(parent_id, encrypted_key, key_nonce) ==
    [type |-> "Move", parent_id |-> parent_id, encrypted_key |-> encrypted_key,
     key_nonce |-> key_nonce, encrypted_name |-> "n1", name_nonce |-> 0]

RenameBody(encrypted_name, name_nonce) ==
    [type |-> "Rename", parent_id |-> NoFile, encrypted_key |-> 0,
     key_nonce |-> 0, encrypted_name |-> encrypted_name, name_nonce |-> name_nonce]

\* the checks of the Move arm before its query on the new parent
MoveBodyValid(body) ==
    /\ (body.parent_id # NoFile) = (body.key_nonce # 0)
    /\ (body.key_nonce # 0 => check_nonce(body.key_nonce))
    /\ body.encrypted_key <= ROOT_FILE_ENCRYPTED_KEY_LENGTH
    /\ ~ \/ (body.parent_id # NoFile /\ body.encrypted_key # CHILD_FILE_ENCRYPTED_KEY_LENGTH)
         \/ (body.parent_id = NoFile /\ body.encrypted_key # ROOT_FILE_ENCRYPTED_KEY_LENGTH)

\* a Move that does not compare the owners
MoveApplyAnyOwner(r, id, body, is_directory, owner_id, target_owner) ==
    IF ~is_directory THEN Refuse([r EXCEPT !.status = 403])
    ELSE /\ file' = [file EXCEPT ![id].parent_id = body.parent_id,
                                 ![id].encrypted_key = body.encrypted_key,
                                 ![id].key_nonce = body.key_nonce]
         /\ Reply([r EXCEPT !.status = 200])
         /\ UNCHANGED <<share_user, share_link, user, uploads, now, nextFile, nextLink>>

\* UPDATE file SET parent_id = ?, encrypted_key = ?, key_nonce = ? WHERE id = ?
MoveApply(r, id, body, is_directory, owner_id, target_owner) ==
    IF ~is_directory THEN Refuse([r EXCEPT !.status = 403])
    ELSE IF owner_id # target_owner THEN Refuse([r EXCEPT !.status = 403])
    ELSE /\ file' = [file EXCEPT ![id].parent_id = body.parent_id,
                                 ![id].encrypted_key = body.encrypted_key,
                                 ![id].key_nonce = body.key_nonce]
         /\ Reply([r EXCEPT !.status = 200])
         /\ UNCHANGED <<share_user, share_link, user, uploads, now, nextFile, nextLink>>

Move(r, uuid, id, link_id, body, target_owner) ==
    IF ~MoveBodyValid(body) THEN Refuse([r EXCEPT !.status = 400])
    ELSE IF body.parent_id = NoFile
    THEN MoveApply(r, id, body, TRUE, uuid, target_owner)
    ELSE IF AncestorsDiverge(body.parent_id) THEN Refuse(r)
    ELSE IF MoveRows(body.parent_id, id, uuid, link_id) = {}
    THEN Refuse(NotFound(r, "Unable to move file"))
    ELSE \E p \in MoveRows(body.parent_id, id, uuid, link_id) :
            MoveApply(r, id, body, file[p].is_directory, file[p].owner_id, target_owner)

Rename(r, id, body) ==
    IF ~check_nonce(body.name_nonce) THEN Refuse([r EXCEPT !.status = 400])
    ELSE /\ file' = [file EXCEPT ![id].encrypted_name = body.encrypted_name,
                                 ![id].name_nonce = body.name_nonce]
         /\ Reply([r EXCEPT !.status = 200])
         /\ UNCHANGED <<share_user, share_link, user, uploads, now, nextFile, nextLink>>

UpdateFile(uuid, id, link_id, link_password, body) ==
    LET r == Response(IF body.type = "Move" THEN "move" ELSE "rename",
                      uuid, id, body.parent_id, link_id, link_password, 0)
    IN
    IF AncestorsDiverge(id) THEN Refuse(r)
    ELSE IF TargetRows(id, uuid, link_id, link_password) = {}
    THEN Refuse(NotFound(r, "Unable to find file to update"))
    ELSE \E target \in TargetRows(id, uuid, link_id, link_password) :
            IF body.type = "Move"
            THEN Move(r, uuid, id, link_id, body, file[target].owner_id)
            ELSE Rename(r, id, body)

(* ------------------------------------------------------------------ *)
(* share_file (POST /api/share)                                         *)
(* ------------------------------------------------------------------ *)
\* INSERT INTO share_user (file_id, user_id, encrypted_key, edit_permission)
\* .. ON CONFLICT DO UPDATE SET encrypted_key = ?
UpsertShareUser(file_id, receiver_id, encrypted_key, edit) ==
    IF \E su \in share_user : su.file_id = file_id /\ su.user_id = receiver_id
    THEN {IF su.file_id = file_id /\ su.user_id = receiver_id
          THEN [su EXCEPT !.encrypted_key = encrypted_key] ELSE su : su \in share_user}
    ELSE share_user \cup
            {[file_id |-> file_id, user_id |-> receiver_id,
              encrypted_key |-> encrypted_key, edit_permission |-> edit]}

share_with_user(owner_id, file_id, encrypted_key, receiver_id, edit) ==
    LET r == [Response("share_user", owner_id, file_id, NoFile, NoLink, receiver_id, 0)
                EXCEPT !.arg = <<encrypted_key, edit>>]
    IN
    IF receiver_id = owner_id THEN Refuse([r EXCEPT !.status = 400])
    ELSE IF ~is_owner(owner_id, file_id) THEN Refuse(NotFound(r, "File not found"))
    ELSE IF receiver_id \notin DOMAIN user THEN Refuse([r EXCEPT !.status = 400])
    ELSE /\ share_user' = UpsertShareUser(file_id, receiver_id, encrypted_key, edit)
         /\ Reply([r EXCEPT !.status = 200])
         /\ UNCHANGED <<file, share_link, user, uploads, now, nextFile, nextLink>>

share_with_link(uuid, file_id, expires, password, edit) ==
    LET r == Response("share_link", uuid, file_id, NoFile, nextLink, password, 0)
    IN
    /\ nextLink <= MaxLinks
    /\ IF uuid # NoUser /\ ~is_owner(uuid, file_id)
       THEN Refuse(NotFound(r, "File not found"))
       ELSE IF password = ""
       THEN Refuse([r EXCEPT !.status = 400])
       ELSE /\ share_link' = share_link \cup
                    {LinkRow(nextLink, file_id, expires, password, edit)}
            /\ nextLink' = nextLink + 1
            /\ Reply([r EXCEPT !.status = 201])
            /\ UNCHANGED <<file, share_user, user, uploads, now, nextFile>>

(* ------------------------------------------------------------------ *)
(* delete_share_permission (DELETE /api/shared) and                     *)
(* update_share_permission (PUT /api/share)                             *)
(* ------------------------------------------------------------------ *)

\* a statement that changes only the share tables answers
ShareReply(r) ==
    /\ Reply(r)
    /\ UNCHANGED <<file, user, uploads, now, nextFile, nextLink>>

\* the rows of the pair, whoever owns the file
RevokedAnyOwner(uuid, user_id, file_id) ==
    {su \in share_user : su.user_id = user_id /\ su.file_id = file_id}

\* DELETE FROM share_user WHERE user_id = ? AND
\* file_id IN (SELECT id FROM file WHERE id = ? AND owner_id = ?): the rows deleted
RevokedUserRows(uuid, user_id, file_id) ==
    {su \in share_user :
        /\ su.user_id = user_id
        /\ su.file_id = file_id /\ file_id \in Ids /\ file[file_id].owner_id = uuid}

\* delete_share_permission, ShareIdentifier::User
delete_share_user(uuid, user_id, file_id) ==
    LET r == Response("unshare_user", uuid, file_id, NoFile, NoLink, user_id, 0)
        rows == RevokedUserRows(uuid, user_id, file_id)
    IN
    /\ share_user' = share_user \ rows
    /\ UNCHANGED share_link
    /\ ShareReply(IF rows = {} THEN NotFound(r, "File is not shared with user")
                  ELSE [r EXCEPT !.status = 200])

\* the share_link rows with this id whose file the caller owns
OwnedLinkRows(uuid, link_id) ==
    {sl \in share_link : sl.id = link_id /\ file[sl.file_id].owner_id = uuid}

\* delete_share_permission, ShareIdentifier::Link
delete_share_link(uuid, link_id) ==
    LET r == Response("unshare_link", uuid, NoFile, NoFile, link_id, NoCred, 0)
        rows == OwnedLinkRows(uuid, link_id)
    IN
    /\ share_link' = share_link \ rows
    /\ UNCHANGED share_user
    /\ ShareReply(IF rows = {} THEN NotFound(r, "Link not found")
                  ELSE [r EXCEPT !.status = 200])

\* update_share_permission, ShareIdentifier::User:
\* UPDATE share_user SET edit_permission = ? FROM (.. owner_id = ? AND id = ?)
update_share_user(uuid, user_id, file_id, edit) ==
    LET r == [Response("reshare_user", uuid, file_id, NoFile, NoLink, user_id, 0)
                EXCEPT !.arg = edit]
        rows == RevokedUserRows(uuid, user_id, file_id)
    IN
    /\ share_user' = (share_user \ rows) \cup
                        {[su EXCEPT !.edit_permission = edit] : su \in rows}
    /\ UNCHANGED share_link
    /\ ShareReply([r EXCEPT !.status = IF rows = {} THEN 403 ELSE 200])

\* x = y in SQL: never true when either side is NULL
SqlEq(x, y) == x # NoHash /\ y # NoHash /\ x = y

\* the value update_share_permission binds for the password: None stays None,
\* the empty string stays empty, anything else is hashed
BoundHash(password) ==
    IF password = NoCred THEN NoHash
    ELSE IF password = "" THEN ""
    ELSE Hash(password)

\* CASE ? WHEN NULL THEN password_hash WHEN '' THEN NULL ELSE ? END
CaseHash(stored, bound) ==
    IF SqlEq(bound, NoHash) THEN stored
    ELSE IF SqlEq(bound, "") THEN NoHash
    ELSE bound

\* update_share_permission, ShareIdentifier::Link
update_share_link(uuid, link_id, password, edit) ==
    LET r == [Response("reshare_link", uuid, NoFile, NoFile, link_id, password, 0)
                EXCEPT !.arg = edit]
        rows == OwnedLinkRows(uuid, link_id)
    IN
    /\ share_link' = (share_link \ rows) \cup
            {[sl EXCEPT !.edit_permission = edit,
                        !.password_hash = CaseHash(sl.password_hash, BoundHash(password))] :
                sl \in rows}
    /\ UNCHANGED share_user
    /\ ShareReply([r EXCEPT !.status = IF rows = {} THEN 403 ELSE 200])

(* ------------------------------------------------------------------ *)
(* get_user_shared_file (GET /api/shared) and                           *)
(* get_link_shared_file (POST /api/shared/{link_id})                    *)
(* ------------------------------------------------------------------ *)

RECURSIVE Within(_, _)
\* the files reached from the files S in at most d steps down (c.depth < ?)
Within(S, d) ==
    LET T == S \cup {c \in Ids : file[c].parent_id \in S}
    IN IF d = 0 \/ T = S THEN S ELSE Within(T, d - 1)

\* the rows of the recursive member of "children", as pairs <<id, parent_id>>
ChildRows(anchors, d) ==
    IF d = 0 THEN {}
    ELSE {<<c, file[c].parent_id>> :
            c \in {c \in Ids : file[c].parent_id \in Within(anchors, d - 1)}}

RECURSIVE UpToTop(_, _, _)
\* a walk that does not stop at the rows of roots
UpToTop(f, roots, seen) ==
    LET p == file[f].parent_id IN
    IF p \notin Ids \/ p \in seen THEN {}
    ELSE {<<p, IF p \in roots THEN NoFile ELSE file[p].parent_id>>}
            \cup UpToTop(p, roots, seen \cup {p})

RECURSIVE Up(_, _, _)
\* the recursive member of "ancestors": the rows above f, the walk stopping
\* at a row of roots (directly_shared = 1), whose parent_id is nulled
Up(f, roots, seen) ==
    LET p == file[f].parent_id IN
    IF f \in roots \/ p \notin Ids \/ p \in seen THEN {}
    ELSE {<<p, IF p \in roots THEN NoFile ELSE file[p].parent_id>>}
            \cup Up(p, roots, seen \cup {p})

\* Normalize: the map id -> node the fold builds from the rows, ancestors
\* first, then the subtree by ascending depth; the first row of an id stays
Normalize(ancestors, anchors, children) ==
    LET first == ancestors \cup {n \in anchors : \A a \in ancestors : a[1] # n[1]}
    IN first \cup {n \in children : \A a \in first : a[1] # n[1]}

\* the files shared with the user directly: LEFT JOIN share_user su
\* ON f.id = su.file_id AND su.user_id = ?
UserRoots(uuid) == {su.file_id : su \in {x \in share_user : x.user_id = uuid}}

\* an access query that counts every file as shared with the user
UserAccessAny(id, uuid) == TRUE

\* the access query: COUNT(*) FROM share_user WHERE user_id = ? AND
\* file_id IN (SELECT id FROM ancestors)
UserAccess(id, uuid) == UserRoots(uuid) \cap Ancestors(id) # {}

\* the anchor member of "children" in get_user_shared_file
UserAnchors(uuid, id) ==
    LET shown(f) == file[f].owner_id # NoUser /\ file[f].owner_id # uuid IN
    {<<f, NoFile>> :
        f \in {f \in Ids : shown(f) /\ f \in UserRoots(uuid) /\ (id # NoFile => f = id)}}
    \cup {<<f, file[f].parent_id>> :
        f \in {f \in Ids : /\ shown(f) /\ f = id
                           /\ ~ \E su \in share_user : su.file_id = f}}

\* the ancestor query of get_user_shared_file: the rows of depth > 0
UserAncestors(uuid, id) ==
    IF id \in Ids /\ file[id].owner_id # NoUser /\ file[id].owner_id # uuid
    THEN Up(id, UserRoots(uuid), {id})
    ELSE {}

\* the rows "children" of get_user_shared_file hands to the fold, ORDER BY
\* depth ASC: the anchor rows, then for each depth up to the one asked the
\* rows whose parent is in the level before; rows of one depth come in any
\* order.  A NULL edit_permission is written FALSE.
SharedRows(uuid, id, depth) ==
    LET Orders(S) == {q \in [1 .. Cardinality(S) -> S] :
                        \A i, j \in 1 .. Cardinality(S) : i # j => q[i] # q[j]}
        edit(f) == \E su \in share_user :
                        su.file_id = f /\ su.user_id = uuid /\ su.edit_permission
        RECURSIVE level(_)
        level(k) ==
            IF k = 0
            THEN {[id |-> a[1], parent_id |-> a[2], edit_permission |-> edit(a[1])] :
                    a \in UserAnchors(uuid, id)}
            ELSE {[id |-> c, parent_id |-> file[c].parent_id, edit_permission |-> FALSE] :
                    c \in {c \in Ids : file[c].parent_id \in {n.id : n \in level(k - 1)}}}
        RECURSIVE upto(_)
        upto(k) ==
            IF k = 0 THEN Orders(level(0))
            ELSE {a \o b : a \in upto(k - 1), b \in Orders(level(k))}
    IN upto(depth)

RECURSIVE normalize(_)
\* normalize: the fold over the rows that builds the map id -> node and the
\* list of roots; a row with a parent is pushed onto the children of the
\* parent if the map has it, a row without one onto the roots; the first row
\* of an id stays in the map, a later one can only raise edit_permission
normalize(rows) ==
    IF rows = <<>> THEN [map |-> <<>>, root |-> <<>>]
    ELSE LET acc == normalize(SubSeq(rows, 1, Len(rows) - 1))
             cur == rows[Len(rows)]
             pushed == IF cur.parent_id # NoFile /\ cur.parent_id \in DOMAIN acc.map
                       THEN [acc.map EXCEPT ![cur.parent_id].children = Append(@, cur.id)]
                       ELSE acc.map
         IN [map |-> [n \in DOMAIN pushed \cup {cur.id} |->
                        IF n \in DOMAIN pushed
                        THEN IF n = cur.id /\ cur.edit_permission
                             THEN [pushed[n] EXCEPT !.edit_permission = TRUE]
                             ELSE pushed[n]
                        ELSE [parent_id |-> cur.parent_id, children |-> <<>>,
                              edit_permission |-> cur.edit_permission]],
             root |-> IF cur.parent_id = NoFile THEN Append(acc.root, cur.id) ELSE acc.root]

get_user_shared_file(uuid, id, depth, include_ancestors) ==
    LET r == [Response("shared", uuid, id, NoFile, NoLink, NoCred, 0)
                EXCEPT !.arg = <<depth, include_ancestors>>]
        anchors == UserAnchors(uuid, id)
        files == Normalize(IF include_ancestors THEN UserAncestors(uuid, id) ELSE {},
                           anchors, ChildRows({a[1] : a \in anchors}, depth))
    IN
    IF id # NoFile /\ AncestorsDiverge(id) THEN Refuse(r)
    ELSE IF id # NoFile /\ ~UserAccess(id, uuid)
    THEN Refuse(NotFound(r, "File not found"))
    ELSE IF id # NoFile /\ files = {}
    THEN Refuse(NotFound(r, "File not found"))
    ELSE Refuse([r EXCEPT !.status = 200, !.files = files])

\* urlencoding::encode: a space becomes %20, letters stay
urlencode(password) == IF password = "p w" THEN "p%20w" ELSE password

\* urlencoding::decode fails on bytes that are no UTF-8 text
Decodable(cookie) == cookie # "%FF"

\* urlencoding::decode
urldecode(cookie) == IF cookie = "p%20w" THEN "p w" ELSE cookie

\* a verification that accepts every password
verify_any(password, stored_hash) == TRUE

\* argon2.verify_password(password, PasswordHash::new(stored_hash))
verify_password(password, stored_hash) == stored_hash = Hash(password)

\* (expires_at IS NULL OR DATETIME(expires_at) >= CURRENT_TIMESTAMP)
Unexpired(sl) == sl.expires_at = NoTime \/ sl.expires_at >= now

\* the files the link is on while it has not expired: LEFT JOIN share_link sl
\* ON f.id = sl.file_id AND sl.id = ? AND (sl.expires_at IS NULL OR ..)
LinkRoots(link_id) ==
    {sl.file_id : sl \in {x \in share_link : x.id = link_id /\ Unexpired(x)}}

\* the access query: COUNT(*) FROM share_link WHERE share_link.id = ? AND
\* (expires_at ..) AND file_id IN (SELECT id FROM ancestors)
LinkAccess(id, link_id) == LinkRoots(link_id) \cap Ancestors(id) # {}

\* the anchor member of "children" in get_link_shared_file
LinkAnchors(link_id, id) ==
    {<<f, NoFile>> :
        f \in {f \in Ids : f \in LinkRoots(link_id) /\ (id # NoFile => f = id)}}
    \cup {<<f, file[f].parent_id>> :
        f \in {f \in Ids : f = id /\ ~ \E sl \in share_link : sl.file_id = f}}

\* the ancestor query of get_link_shared_file: the rows of depth > 0
LinkAncestors(link_id, id) ==
    IF id \in Ids THEN Up(id, LinkRoots(link_id), {id}) ELSE {}

\* the password get_link_shared_file verifies: the body unless it is absent
\* or empty, else the cookie named by the link id; NoCred when there is neither
EffectivePassword(body, cookie) ==
    IF body # NoCred /\ body # "" THEN body
    ELSE IF cookie # NoCred THEN urldecode(cookie)
    ELSE NoCred

get_link_shared_file(link_id, id, depth, include_ancestors, body, cookie) ==
    LET r == [Response("link_shared", NoUser, id, NoFile, link_id, cookie, 0)
                EXCEPT !.arg = <<depth, include_ancestors, body>>]
        rows == {sl \in share_link : sl.id = link_id}
        stored_hash == (CHOOSE sl \in rows : TRUE).password_hash
        password == EffectivePassword(body, cookie)
        anchors == LinkAnchors(link_id, id)
        files == Normalize(IF include_ancestors THEN LinkAncestors(link_id, id) ELSE {},
                           anchors, ChildRows({a[1] : a \in anchors}, depth))
    IN
    IF id # NoFile /\ AncestorsDiverge(id) THEN Refuse(r)
    ELSE IF id # NoFile /\ ~LinkAccess(id, link_id)
    THEN Refuse(NotFound(r, "File not found"))
    ELSE IF rows = {} THEN Refuse(NotFound(r, "Invalid share link"))
    ELSE IF stored_hash = NoHash
    THEN Refuse([r EXCEPT !.status = 200, !.files = files])
    ELSE IF (body = NoCred \/ body = "") /\ cookie # NoCred /\ ~Decodable(cookie)
    THEN Refuse(into_response(r, "Generic"))
    ELSE IF password = NoCred
    THEN Refuse([r EXCEPT !.status = 401,
                          !.message = "This link requires a password. Please provide a password inside the request body"])
    ELSE IF ~verify_password(password, stored_hash)
    THEN Refuse([r EXCEPT !.status = 401, !.message = "Invalid password"])
    ELSE Refuse([r EXCEPT !.status = 200, !.files = files,
                          !.set_cookie = urlencode(password)])

(* ------------------------------------------------------------------ *)
(* Chunked uploads: start_chunked_upload, upload_chunk,                 *)
(* finalize_chunked_upload                                              *)
(* ------------------------------------------------------------------ *)

\* what get_owner_from_parent can end with: a status (200: the owner is
\* resolved, 0: its query never returns) and the owner, one outcome for each
\* row LIMIT 1 may pick
ParentOutcomes(parent_id, key_nonce, uuid, link_id, link_password) ==
    IF parent_id = NoFile THEN {[status |-> 200, owner_id |-> uuid]}
    ELSE IF AncestorsDiverge(parent_id) THEN {[status |-> 0, owner_id |-> NoUser]}
    ELSE IF ParentRows(parent_id, uuid, link_id, link_password) = {}
    THEN {[status |-> 404, owner_id |-> NoUser]}
    ELSE {[status |-> IF ~file[a].is_directory \/ key_nonce = 0 THEN 400 ELSE 200,
           owner_id |-> file[a].owner_id] :
            a \in ParentRows(parent_id, uuid, link_id, link_password)}

\* the checks of start_chunked_upload before check_upload_metadata
ChunkRequestValid(req) ==
    /\ req.file_size >= MIN_CHUNK_SIZE /\ req.file_size <= MAX_FILE_SIZE
    /\ req.chunk_size >= MIN_CHUNK_SIZE
    /\ req.total_chunks > 0
    /\ ~req.upload.is_directory
    /\ ~ \/ req.file_size <= req.chunk_size * (req.total_chunks - 1)
         \/ req.file_size > req.chunk_size * req.total_chunks
    /\ req.upload.file_nonce = 0

\* the row TransactionRequest::process_upload_transaction inserts
TransactionRow(req, owner_id, uuid) ==
    [owner_id |-> owner_id, uploader_id |-> uuid, parent_id |-> req.upload.parent_id,
     encrypted_key |-> req.upload.encrypted_key,
     encrypted_name |-> req.upload.encrypted_file_name,
     key_nonce |-> req.upload.key_nonce, name_nonce |-> req.upload.name_nonce,
     expected_size |-> req.file_size, chunk_size |-> req.chunk_size,
     total_chunks |-> req.total_chunks, current_chunks |-> 0]

\* start_chunked_upload (POST /api/upload/chunked).  The transaction that
\* inserts the upload_transaction row is dropped without a commit, so the row
\* is rolled back; the transaction directory is created all the same.
StartChunkedUpload(uuid, req, link_id, link_password) ==
    LET r == Response("start", uuid, nextTx, req.upload.parent_id, link_id, link_password, 0)
        answer(status) ==
            /\ last' = [r EXCEPT !.status = status]
            /\ UNCHANGED <<file, share_user, share_link, user, uploads, now, nextFile,
                           nextLink, sessionVars, chunkVars, inflight, origin>>
    IN
    IF ~ChunkRequestValid(req) THEN answer(403)
    ELSE IF ~check_upload_metadata(req.upload, uuid # NoUser) THEN answer(400)
    ELSE \E po \in ParentOutcomes(req.upload.parent_id, req.upload.key_nonce,
                                  uuid, link_id, link_password) :
            IF po.status # 200 THEN answer(po.status)
            ELSE IF po.owner_id # NoUser /\ ~check_space(req.upload, po.owner_id, req.file_size)
            THEN answer(402)
            ELSE /\ last' = [r EXCEPT !.status = 201]
                 /\ tx_dirs' = tx_dirs \cup {nextTx}
                 /\ nextTx' = nextTx + 1
                 /\ UNCHANGED <<file, share_user, share_link, user, uploads, now,
                                nextFile, nextLink, sessionVars,
                                upload_transaction, chunks, inflight, origin>>

\* an i64 as its 8 bytes, lowest first: the value lo (below 2^31) with bit
\* number bit set in addition (no bit when bit < 0)
Word(lo, bit) ==
    [i \in 1 .. 8 |->
        (IF i <= 4 THEN (lo \div 2 ^ (8 * (i - 1))) % 256 ELSE 0)
        + (IF bit >= 0 /\ bit \div 8 = i - 1 THEN 2 ^ (bit % 8) ELSE 0)]

\* the lowest n bytes of the product of two words
Product(a, b, n) ==
    LET RECURSIVE column(_, _)
        column(k, i) ==
            IF i = 0 THEN 0
            ELSE column(k, i - 1)
                 + (IF i <= Len(a) /\ k - i + 1 \in 1 .. Len(b)
                    THEN a[i] * b[k - i + 1] ELSE 0)
        RECURSIVE digits(_, _)
        digits(k, carry) ==
            IF k > n THEN <<>>
            ELSE LET t == column(k, k) + carry
                 IN <<t % 256>> \o digits(k + 1, t \div 256)
    IN digits(1, 0)

\* a < b for two byte strings of one length read as unsigned numbers
Below(a, b) ==
    \E i \in 1 .. Len(a) :
        a[i] < b[i] /\ \A j \in i + 1 .. Len(a) : a[j] = b[j]

\* w - 1 for a word w that is not 0
Less1(w) ==
    LET borrow == CHOOSE i \in 1 .. 8 : w[i] # 0 /\ \A j \in 1 .. i - 1 : w[j] = 0
    IN [i \in 1 .. 8 |-> IF i < borrow THEN 255
                         ELSE IF i = borrow THEN w[i] - 1
                         ELSE w[i]]

\* metadata.file_size <= x and > x of the size check, x = chunk_size * n in
\* i64: the product wraps around when wraps holds (overflow checks off) and
\* panics otherwise; file_size is a word between 0 and 2^63
size_check(file_size, chunk_size, total_chunks, wraps) ==
    LET lower == Product(chunk_size, Less1(total_chunks), 16)
        upper == Product(chunk_size, total_chunks, 16)
        overflows(wide) == wide[8] >= 128 \/ \E i \in 9 .. 16 : wide[i] # 0
        \* signed file_size <= the i64 in the low 8 bytes of wide
        le(wide) == wide[8] < 128 /\ ~Below(SubSeq(wide, 1, 8), file_size)
    IN IF (overflows(lower) \/ overflows(upper)) /\ ~wraps THEN "panic"
       ELSE IF le(lower) \/ ~le(upper) THEN "reject"
       ELSE "pass"

\* start_chunked_upload on a request whose chunk_size and total_chunks are
\* any i64, for a file at root
start_chunked_upload(uuid, req, wraps) ==
    LET r == [Response("start", uuid, nextTx, NoFile, NoLink, NoCred, 0)
                EXCEPT !.arg = <<req.file_size, req.chunk_size, req.total_chunks>>]
        answer(status, message) ==
            /\ last' = [r EXCEPT !.status = status, !.message = message]
            /\ UNCHANGED <<file, share_user, share_link, user, uploads, now, nextFile,
                           nextLink, sessionVars, chunkVars, inflight, origin>>
        checked == size_check(Word(req.file_size, 0 - 1), req.chunk_size,
                              req.total_chunks, wraps)
    IN
    IF req.file_size < MIN_CHUNK_SIZE \/ req.file_size > MAX_FILE_SIZE
    THEN answer(403, "The provided file is too small to be uploaded in chunks")
    ELSE IF req.chunk_size[8] >= 128 \/ Below(req.chunk_size, Word(MIN_CHUNK_SIZE, 0 - 1))
    THEN answer(403, "The provided chunk size is too small")
    ELSE IF req.total_chunks[8] >= 128 \/ req.total_chunks = Word(0, 0 - 1)
    THEN answer(403, "There must be at least one chunk to process for uploading")
    ELSE IF req.upload.is_directory
    THEN answer(403, "Uploading directories in chunks is not supported")
    ELSE IF checked = "panic" THEN answer(0, "panic")
    ELSE IF checked = "reject"
    THEN answer(403, "File size does not match provided chunk constraints")
    ELSE IF req.upload.file_nonce # 0 THEN answer(403, "")
    ELSE IF ~check_upload_metadata(req.upload, uuid # NoUser) THEN answer(400, "")
    ELSE IF ~check_space(req.upload, uuid, req.file_size) THEN answer(402, "")
    ELSE /\ last' = [r EXCEPT !.status = 201]
         /\ tx_dirs' = tx_dirs \cup {nextTx}
         /\ nextTx' = nextTx + 1
         /\ UNCHANGED <<file, share_user, share_link, user, uploads, now,
                        nextFile, nextLink, sessionVars,
                        upload_transaction, chunks, inflight, origin>>

\* the file row finalize_chunked_upload inserts from the transaction row
FinalRow(t) ==
    [parent_id |-> t.parent_id, owner_id |-> t.owner_id, is_directory |-> FALSE,
     encrypted_name |-> t.encrypted_name, encrypted_key |-> t.encrypted_key,
     key_nonce |-> t.key_nonce, name_nonce |-> t.name_nonce,
     file_nonce |-> 0, size |-> t.expected_size]

\* the chunk files ch after len bytes are in the file at path, and after the
\* files at the paths S are removed
Written(ch, path, len) ==
    [p \in DOMAIN ch \cup {path} |-> IF p = path THEN len ELSE ch[p]]

Removed(ch, S) ==
    [p \in DOMAIN ch \ S |-> ch[p]]

\* what finalize_chunked_upload leaves behind, run on the table ut of upload
\* transactions: File::create_new(uploads/{file_id}) comes first, the early
\* returns leave that blob; the transaction deletes the row and inserts the
\* file; the chunks are copied after the commit
Untouched(ut, ch, status, blobs) ==
    [status |-> status, file |-> file, user |-> user, share_link |-> share_link,
     nextLink |-> nextLink, uploads |-> blobs, upload_transaction |-> ut,
     chunks |-> ch, tx_dirs |-> tx_dirs]

FinalizeOutcomes(ut, ch, file_id, uuid, tx, link_id, link_password, busy, copy_fails) ==
    LET created == uploads \cup {file_id}
    IN
    IF tx \notin DOMAIN ut THEN {Untouched(ut, ch, 400, created)}
    ELSE IF ut[tx].total_chunks # ut[tx].current_chunks
    THEN {Untouched(ut, ch, 400, created)}
    ELSE LET t == ut[tx]
             anonymous == t.owner_id = NoUser /\ t.parent_id = NoFile
             committed ==
                [status |-> 200,
                 file |-> file @@ (file_id :> FinalRow(t)),
                 user |-> Charged(t.owner_id, FinalRow(t)),
                 share_link |-> IF anonymous
                                THEN share_link \cup
                                     {LinkRow(nextLink, file_id, AutoLinkExpires, NoCred, FALSE)}
                                ELSE share_link,
                 nextLink |-> IF anonymous THEN nextLink + 1 ELSE nextLink,
                 uploads |-> created,
                 upload_transaction |-> [x \in DOMAIN ut \ {tx} |-> ut[x]],
                 chunks |-> ch, tx_dirs |-> tx_dirs]
             missing == \E n \in 0 .. t.total_chunks - 1 : <<tx, n>> \notin DOMAIN ch
         IN
         {IF po.status = 0 THEN Untouched(ut, ch, 0, created)
          ELSE IF po.status # 200
          THEN Untouched(ut, ch, po.status, cleanup(created, file_id))
          ELSE IF anonymous /\ uuid # NoUser /\ ~is_owner(uuid, file_id)
          THEN \* share_with_link asks the pool, which cannot see the new row
               Untouched(ut, ch, 404, cleanup(created, file_id))
          ELSE IF busy THEN Untouched(ut, ch, 500, cleanup(created, file_id))
          ELSE IF missing \/ copy_fails
          THEN [committed EXCEPT !.status = 500, !.uploads = cleanup(created, file_id)]
          ELSE [committed EXCEPT !.chunks = Removed(ch, {c \in DOMAIN ch : c[1] = tx}),
                                 !.tx_dirs = tx_dirs \ {tx}] :
            po \in ParentOutcomes(t.parent_id, t.key_nonce, uuid, link_id, link_password)}

\* the state a run of finalize_chunked_upload leaves
Finalized(o) ==
    /\ file' = o.file
    /\ user' = o.user
    /\ share_link' = o.share_link
    /\ nextLink' = o.nextLink
    /\ uploads' = o.uploads
    /\ upload_transaction' = o.upload_transaction
    /\ chunks' = o.chunks
    /\ tx_dirs' = o.tx_dirs
    /\ nextFile' = nextFile + 1
    /\ UNCHANGED <<share_user, now, sessionVars, nextTx, inflight, origin>>

\* finalize_chunked_upload (POST /api/upload/{transaction_id}/finalize)
FinalizeChunkedUpload(uuid, tx, link_id, link_password, busy, copy_fails) ==
    \E o \in FinalizeOutcomes(upload_transaction, chunks, nextFile, uuid, tx, link_id,
                              link_password, busy, copy_fails) :
        /\ Finalized(o)
        /\ last' = [Response("finalize", uuid, nextFile, tx, link_id, link_password, 0)
                        EXCEPT !.status = o.status]

\* upload_chunk checking only that the chunk is not too large
ChunkNotLarger(t, chunk_id, len) ==
    len <= t.chunk_size

\* the size checks of upload_chunk on a chunk of len bytes
ChunkSizeValid(t, chunk_id, len) ==
    /\ len <= t.chunk_size
    /\ IF chunk_id = t.total_chunks - 1
       THEN (t.total_chunks - 1) * t.chunk_size + len = t.expected_size
       ELSE len = t.chunk_size

\* upload_chunk (POST /api/upload/{transaction_id}/chunk/{chunk_id})
UploadChunk(uuid, tx, chunk_id, len, auto_finalize, link_id, link_password, copy_fails) ==
    LET r == [Response("chunk", uuid, chunk_id, tx, link_id, link_password, 0)
                EXCEPT !.arg = <<tx, auto_finalize, copy_fails>>]
        answer(status) ==
            /\ last' = [r EXCEPT !.status = status]
            /\ UNCHANGED <<file, share_user, share_link, user, uploads, now, nextFile,
                           nextLink, sessionVars, chunkVars, inflight, origin>>
    IN
    IF tx \notin tx_dirs \/ tx \notin DOMAIN upload_transaction THEN answer(400)
    ELSE LET t == upload_transaction[tx]
             counted == [upload_transaction EXCEPT ![tx].current_chunks = @ + 1]
         IN
         \E po \in ParentOutcomes(t.parent_id, t.key_nonce, uuid, link_id, link_password) :
            IF po.status # 200 THEN answer(po.status)
            ELSE IF chunk_id < 0 \/ chunk_id >= t.total_chunks THEN answer(400)
            ELSE IF <<tx, chunk_id>> \in DOMAIN chunks THEN answer(400)
            ELSE IF ~ChunkSizeValid(t, chunk_id, len) THEN answer(400)
            ELSE IF counted[tx].current_chunks # t.total_chunks - 1 \/ ~auto_finalize
            THEN /\ upload_transaction' = counted
                 /\ chunks' = Written(chunks, <<tx, chunk_id>>, len)
                 /\ last' = [r EXCEPT !.status = 204]
                 /\ UNCHANGED <<file, share_user, share_link, user, uploads, now, nextFile,
                                nextLink, sessionVars, tx_dirs, nextTx, inflight, origin>>
            ELSE \E o \in FinalizeOutcomes(counted, Written(chunks, <<tx, chunk_id>>, len),
                                           nextFile, uuid, tx, link_id, link_password,
                                           FALSE, copy_fails) :
                    /\ Finalized(o)
                    /\ last' = [r EXCEPT !.status = IF o.status = 200 THEN 200 ELSE 204]

\* upload_chunk with File::create in place of File::create_new
ChunkCreatedAnyway(uuid, tx, chunk_id, link_id, link_password) ==
    /\ tx \in tx_dirs /\ tx \in DOMAIN upload_transaction
    /\ chunk_id \in 0 .. upload_transaction[tx].total_chunks - 1
    /\ chunks' = Written(chunks, <<tx, chunk_id>>, 0)
    /\ inflight' = inflight \cup
            {[request |-> [Response("chunk", uuid, chunk_id, tx, link_id, link_password, 0)
                            EXCEPT !.arg = <<tx, FALSE, FALSE>>],
              metadata |-> upload_transaction[tx], conn |-> Cardinality(inflight)]}
    /\ UNCHANGED <<file, share_user, share_link, user, uploads, now, nextFile, nextLink,
                   sessionVars, upload_transaction, tx_dirs, nextTx, origin, last>>

\* upload_chunk up to File::create_new: the transaction is read, the
\* permission and the index are checked and the chunk file is created; the
\* request then waits for its body
ChunkCreated(uuid, tx, chunk_id, link_id, link_password) ==
    LET r == [Response("chunk", uuid, chunk_id, tx, link_id, link_password, 0)
                EXCEPT !.arg = <<tx, FALSE, FALSE>>]
        answer(status) ==
            /\ last' = [r EXCEPT !.status = status]
            /\ UNCHANGED <<file, share_user, share_link, user, uploads, now, nextFile,
                           nextLink, sessionVars, chunkVars, inflight, origin>>
    IN
    IF tx \notin tx_dirs \/ tx \notin DOMAIN upload_transaction THEN answer(400)
    ELSE LET t == upload_transaction[tx] IN
         \E po \in ParentOutcomes(t.parent_id, t.key_nonce, uuid, link_id, link_password) :
            IF po.status # 200 THEN answer(po.status)
            ELSE IF chunk_id < 0 \/ chunk_id >= t.total_chunks THEN answer(400)
            ELSE IF <<tx, chunk_id>> \in DOMAIN chunks THEN answer(400)
            ELSE /\ chunks' = Written(chunks, <<tx, chunk_id>>, 0)
                 /\ inflight' = inflight \cup
                        {[request |-> r, metadata |-> t, conn |-> Cardinality(inflight)]}
                 /\ UNCHANGED <<file, share_user, share_link, user, uploads, now, nextFile,
                                nextLink, sessionVars, upload_transaction, tx_dirs, nextTx,
                                origin, last>>

\* the rest of upload_chunk without the cleanup of its error arm
ChunkWrittenKept(u, len) ==
    /\ u \in inflight
    /\ inflight' = inflight \ {u}
    /\ IF ~ChunkSizeValid(u.metadata, u.request.id, len)
       THEN /\ chunks' = Written(chunks, <<u.request.arg[1], u.request.id>>, len)
            /\ last' = [u.request EXCEPT !.status = 400]
            /\ UNCHANGED upload_transaction
       ELSE /\ upload_transaction' =
                    [upload_transaction EXCEPT ![u.request.arg[1]].current_chunks = @ + 1]
            /\ chunks' = Written(chunks, <<u.request.arg[1], u.request.id>>, len)
            /\ last' = [u.request EXCEPT !.status = 204]
    /\ UNCHANGED <<file, share_user, share_link, user, uploads, now, nextFile, nextLink,
                   sessionVars, tx_dirs, nextTx, origin>>

\* the rest of upload_chunk, without auto_finalize: the body of len bytes is
\* written, its length is checked against the metadata read before, and the
\* counter is incremented; an error removes the chunk file
ChunkWritten(u, len) ==
    LET tx == u.request.arg[1]
        path == <<tx, u.request.id>>
    IN
    /\ u \in inflight
    /\ inflight' = inflight \ {u}
    /\ IF ~ChunkSizeValid(u.metadata, u.request.id, len)
       THEN /\ chunks' = Removed(chunks, {path})
            /\ last' = [u.request EXCEPT !.status = 400]
            /\ UNCHANGED upload_transaction
       ELSE IF tx \notin DOMAIN upload_transaction
       THEN \* UPDATE .. RETURNING finds no row
            /\ chunks' = Removed(chunks, {path})
            /\ last' = [u.request EXCEPT !.status = 500]
            /\ UNCHANGED upload_transaction
       ELSE /\ upload_transaction' = [upload_transaction EXCEPT ![tx].current_chunks = @ + 1]
            /\ chunks' = Written(chunks, path, len)
            /\ last' = [u.request EXCEPT !.status = 204]
    /\ UNCHANGED <<file, share_user, share_link, user, uploads, now, nextFile, nextLink,
                   sessionVars, tx_dirs, nextTx, origin>>

\* finalize_chunked_upload up to File::create_new(uploads/{file_id}): the
\* request has drawn its file id and created its empty output file
FinalizeCreated(uuid, tx, link_id, link_password) ==
    /\ uploads' = uploads \cup {nextFile}
    /\ nextFile' = nextFile + 1
    /\ inflight' = inflight \cup
            {[request |-> Response("finalize", uuid, nextFile, tx, link_id, link_password, 0),
              conn |-> Cardinality(inflight)]}
    /\ UNCHANGED <<file, share_user, share_link, user, now, nextLink, sessionVars,
                   chunkVars, origin, last>>

\* the rest of finalize_chunked_upload: the transaction is looked up, the
\* retried closure deletes its row and inserts the file, the chunks are
\* copied into the output file; the error arm removes the output file
FinalizeDone(u, busy, copy_fails) ==
    /\ u \in inflight
    /\ u.request.op = "finalize"
    /\ inflight' = inflight \ {u}
    /\ \E o \in FinalizeOutcomes(upload_transaction, chunks, u.request.id, u.request.uuid,
                                 u.request.arg, u.request.link_id, u.request.cred,
                                 busy, copy_fails) :
        /\ file' = o.file
        /\ user' = o.user
        /\ share_link' = o.share_link
        /\ nextLink' = o.nextLink
        /\ uploads' = o.uploads
        /\ upload_transaction' = o.upload_transaction
        /\ chunks' = o.chunks
        /\ tx_dirs' = o.tx_dirs
        /\ last' = [u.request EXCEPT !.status = o.status]
    /\ UNCHANGED <<share_user, now, nextFile, sessionVars, nextTx, origin>>

(* ------------------------------------------------------------------ *)
(* Sessions: login, the SessionAuth extractor, the janitor              *)
(* ------------------------------------------------------------------ *)

\* the Cookie header of a request: absent, not readable as text, without a
\* session cookie, with a session cookie that is no UUID, or with session id sid
Cookie(kind, sid) == [kind |-> kind, sid |-> sid]

Cookies ==
    {Cookie(k, 0) : k \in {"absent", "opaque", "other", "malformed"}}
    \cup {Cookie("session", sid) : sid \in 1 .. MaxSessions}

\* column expires_at of table session: the end of the idle lifetime
expires_at(s) == s.last_used_at + s.idle_duration

\* the extractor's query without "expires_at > CURRENT_TIMESTAMP"
SessionRowsAnyAge(sid) == {x \in DOMAIN session : x = sid}

\* SELECT .. FROM user JOIN session .. WHERE session.id = ? AND expires_at > CURRENT_TIMESTAMP
SessionRows(sid) ==
    {x \in DOMAIN session : x = sid /\ expires_at(session[x]) > now}

\* the error the extractor ends with, "" when it extracts a user
SessionAuthError(cookie) ==
    IF cookie.kind = "absent" THEN "AuthError"
    ELSE IF cookie.kind = "opaque" THEN "Generic"
    ELSE IF cookie.kind = "other" THEN "AuthError"
    ELSE IF cookie.kind = "malformed" THEN "Generic"
    ELSE IF SessionRows(cookie.sid) = {} THEN "AuthError"
    ELSE ""

\* a request to a handler that takes SessionAuth (GET /api/profile)
SessionAuth(cookie) ==
    LET r == Response("auth", NoUser, cookie.sid, NoFile, NoLink, cookie.kind, 0)
        err == SessionAuthError(cookie)
    IN
    /\ last' = IF err # "" THEN into_response(r, err)
               ELSE [r EXCEPT !.status = 200, !.uuid = session[cookie.sid].user_id]
    /\ UNCHANGED <<file, share_user, share_link, user, uploads, now, nextFile, nextLink,
                   sessionVars, chunkVars, inflight, origin>>

\* check_current that accepts every code
check_any_code(secret, code, t) == TRUE

\* TOTP::check_current: the code generated from the secret for the step of
\* the current time or for one within the skew; a code is modelled by the
\* secret and the step it was generated from
check_current(secret, code, t) ==
    /\ code[1] = secret
    /\ code[2] \in (t \div TotpStep) - TotpSkew .. (t \div TotpStep) + TotpSkew

\* authenticate_user (POST /api/login); totp_code is NoCode when absent
authenticate_user(username, password, totp_code) ==
    LET r == [Response("login", username, nextSession, NoFile, NoLink, password, 0)
                EXCEPT !.arg = totp_code]
        \* LoginUser's app_validate: the lengths of username and password
        app_validate == Len(username) \in 3 .. 20 /\ Len(password) \in 8 .. 64
        refuse(a) ==
            /\ last' = a
            /\ UNCHANGED <<file, share_user, share_link, user, uploads, now, nextFile,
                           nextLink, sessionVars, chunkVars, inflight, origin>>
    IN
    IF ~app_validate THEN refuse([r EXCEPT !.status = 400])
    ELSE IF username \notin Users
    THEN refuse([r EXCEPT !.status = 401, !.message = "Invalid username or password"])
    ELSE IF ~verify_password(password, user[username].password_hash)
    THEN refuse([r EXCEPT !.status = 401, !.message = "Invalid password"])
    ELSE IF user[username].totp_enabled /\ totp_code = NoCode
    THEN \* the body of the request is sent back
         refuse([r EXCEPT !.status = 307, !.message = username \o ":" \o password])
    ELSE IF user[username].totp_enabled /\ user[username].totp_secret = NoSecret
    THEN refuse([r EXCEPT !.status = 401, !.message = "Invalid username or password"])
    ELSE IF /\ user[username].totp_enabled
            /\ ~check_current(user[username].totp_secret, totp_code, now)
    THEN refuse([r EXCEPT !.status = 401, !.message = "Invalid TOTP code"])
    ELSE /\ session' = session @@
                 (nextSession :> [user_id |-> username, last_used_at |-> now,
                                  idle_duration |-> IdleDuration])
         /\ nextSession' = nextSession + 1
         /\ last' = [r EXCEPT !.status = 200, !.set_cookie = "session"]
         /\ UNCHANGED <<file, share_user, share_link, user, uploads, now, nextFile,
                        nextLink, chunkVars, inflight, origin>>

\* update_totp (PUT /api/totp) for the user the session belongs to
update_totp(uuid, req) ==
    LET r == [Response("totp", uuid, NoFile, NoFile, NoLink, NoCred, 0) EXCEPT !.arg = req]
        row == user[uuid]
        answer(status, new) ==
            /\ last' = [r EXCEPT !.status = status]
            /\ user' = [user EXCEPT ![uuid] = new]
            /\ UNCHANGED <<file, share_user, share_link, uploads, now, nextFile, nextLink,
                           sessionVars, chunkVars, inflight, origin>>
    IN
    IF req.type = "Enable"
    THEN IF ~verify_password(req.password, row.password_hash) THEN answer(401, row)
         ELSE IF ~row.totp_verified THEN answer(400, row)
         ELSE IF row.totp_secret = NoSecret THEN answer(400, row)
         ELSE answer(200, [row EXCEPT !.totp_enabled = req.enable])
    ELSE IF req.type = "Regenerate"
    THEN IF ~verify_password(req.password, row.password_hash) THEN answer(401, row)
         ELSE /\ row.totp_secret < MaxSecrets
              /\ answer(201, [row EXCEPT !.totp_secret = @ + 1, !.totp_verified = FALSE])
    ELSE \* Verify
         IF row.totp_secret = NoSecret THEN answer(400, row)
         ELSE IF ~check_current(row.totp_secret, req.code, now) THEN answer(400, row)
         ELSE answer(200, [row EXCEPT !.totp_verified = TRUE])

\* clean_up without the owner_id IS NULL condition of its last statement
clean_up_any_owner ==
    LET links == {sl \in share_link : ~(sl.expires_at # NoTime /\ sl.expires_at < now)}
        orphans == {f \in Ids :
                        ~ \E sl \in links :
                            sl.file_id = f /\ sl.expires_at # NoTime /\ sl.expires_at >= now}
        gone == UNION {Descendants(f) : f \in orphans}
    IN
    /\ file' = [f \in Ids \ gone |-> file[f]]
    /\ share_user' = {su \in share_user : su.file_id \notin gone}
    /\ share_link' = {sl \in links : sl.file_id \notin gone}
    /\ user' = Refunded(gone)
    /\ uploads' = uploads \ orphans
    /\ last' = Response("clean_up", NoUser, NoFile, NoFile, NoLink, NoCred, 0)
    /\ UNCHANGED <<now, nextFile, nextLink, sessionVars, chunkVars, inflight, origin>>

\* clean_up, run by the janitor task every five minutes
clean_up ==
    LET kept == {x \in DOMAIN session :
                    ~(session[x].last_used_at + session[x].idle_duration < now)}
        links == {sl \in share_link : ~(sl.expires_at # NoTime /\ sl.expires_at < now)}
        orphans == {f \in Ids :
                        /\ file[f].owner_id = NoUser
                        /\ ~ \E sl \in links :
                                sl.file_id = f /\ sl.expires_at # NoTime /\ sl.expires_at >= now}
        gone == UNION {Descendants(f) : f \in orphans}
    IN
    /\ session' = [x \in kept |-> session[x]]
    /\ file' = [f \in Ids \ gone |-> file[f]]
    /\ share_user' = {su \in share_user : su.file_id \notin gone}
    /\ share_link' = {sl \in links : sl.file_id \notin gone}
    /\ user' = Refunded(gone)
    /\ uploads' = uploads \ orphans
    /\ last' = Response("clean_up", NoUser, NoFile, NoFile, NoLink, NoCred, 0)
    /\ UNCHANGED <<now, nextFile, nextLink, nextSession, chunkVars, inflight, origin>>

(* ------------------------------------------------------------------ *)
(* The clock                                                            *)
(* ------------------------------------------------------------------ *)
Tick ==
    /\ now < MaxTime
    /\ now' = now + 1
    /\ last' = Response("tick", NoUser, NoFile, NoFile, NoLink, NoCred, 0)
    /\ UNCHANGED <<file, share_user, share_link, user, uploads, nextFile, nextLink,
                   sessionVars, chunkVars, inflight, origin>>

(* ------------------------------------------------------------------ *)
(* Requests the model draws                                             *)
(* ------------------------------------------------------------------ *)
FileSize == 999500

\* seconds the janitor task sleeps between two runs of clean_up
JanitorPeriod == 300
\* runs of the janitor's sleep that are followed
MaxSleeps == 289

Others == {"bob", NoUser}

FileRefs == 1 .. MaxFiles

\* the linkId query parameter and the value of the cookie named after it
LinkCreds ==
    {<<NoLink, NoCred>>} \cup
    {<<l, c>> : l \in 1 .. MaxLinks,
                c \in {NoCred} \cup {Hash(p) : p \in Passwords}}

\* well-formed metadata of a file or directory under parent p (NoFile: at root)
Meta(p, d) ==
    [parent_id |-> p, is_directory |-> d, encrypted_file_name |-> "n1",
     encrypted_key |-> IF p = NoFile THEN ROOT_FILE_ENCRYPTED_KEY_LENGTH
                       ELSE CHILD_FILE_ENCRYPTED_KEY_LENGTH,
     key_nonce |-> IF p = NoFile THEN 0 ELSE NONCE_LENGTH,
     name_nonce |-> NONCE_LENGTH,
     file_nonce |-> IF d THEN 0 ELSE NONCE_LENGTH]

\* metadata of a root file whose name nonce is one byte short
BadMeta == [Meta(NoFile, FALSE) EXCEPT !.name_nonce = NONCE_LENGTH - 1]

\* metadata of a root file that supplies a key nonce all the same
KeyedRootMeta == [Meta(NoFile, FALSE) EXCEPT !.key_nonce = NONCE_LENGTH]

UploadInputs == {Meta(p, d) : p \in {NoFile} \cup FileRefs, d \in BOOLEAN}

UpdateInputs ==
    {MoveBody(p, IF p = NoFile THEN ROOT_FILE_ENCRYPTED_KEY_LENGTH
                 ELSE CHILD_FILE_ENCRYPTED_KEY_LENGTH,
              IF p = NoFile THEN 0 ELSE NONCE_LENGTH) : p \in {NoFile} \cup FileRefs}
    \cup {RenameBody("n2", NONCE_LENGTH)}

(* ------------------------------------------------------------------ *)
(* Spec: one owner builds a tree and shares it; the other callers       *)
(* upload into it, delete, rename and move                              *)
(* ------------------------------------------------------------------ *)
OwnerUpload ==
    \E m \in UploadInputs \cup {BadMeta, KeyedRootMeta}, busy \in BOOLEAN :
        /\ nextFile <= MaxFiles
        /\ UploadFile("alice", m, NoLink, NoCred, FileSize, busy)

OtherUpload ==
    \E uuid \in Others, m \in UploadInputs, lc \in LinkCreds :
        /\ nextFile <= MaxFiles
        /\ m.parent_id # NoFile
        /\ UploadFile(uuid, m, lc[1], lc[2], FileSize, FALSE)

OtherDelete ==
    \E uuid \in Others, id \in FileRefs, lc \in LinkCreds :
        DeleteFile(uuid, id, lc[1], lc[2])

OtherUpdate ==
    \E uuid \in Others, id \in FileRefs, lc \in LinkCreds, body \in UpdateInputs :
        UpdateFile(uuid, id, lc[1], lc[2], body)

OwnerShareUser ==
    \E id \in FileRefs, edit \in BOOLEAN :
        share_with_user("alice", id, "k1", "bob", edit)

OwnerShareLink ==
    \E id \in FileRefs, password \in {NoCred} \cup Passwords, edit \in BOOLEAN :
        share_with_link("alice", id, 0, password, edit)

Next ==
    \/ OwnerUpload
    \/ OtherUpload
    \/ OtherDelete
    \/ OtherUpdate
    \/ OwnerShareUser
    \/ OwnerShareLink

Spec == Init /\ [][Next]_vars

(* ------------------------------------------------------------------ *)
(* SpecMove: the owner builds a tree of three files and shares it; the  *)
(* other callers move files, with and without the link's password       *)
(* ------------------------------------------------------------------ *)
MaxMoveFiles == 3

MoveRefs == 1 .. MaxMoveFiles

MoveInputs ==
    {MoveBody(p, CHILD_FILE_ENCRYPTED_KEY_LENGTH, NONCE_LENGTH) : p \in MoveRefs}

TreeUpload ==
    \E m \in {Meta(p, d) : p \in {NoFile} \cup MoveRefs, d \in BOOLEAN} :
        /\ nextFile <= MaxMoveFiles
        /\ UploadFile("alice", m, NoLink, NoCred, FileSize, FALSE)

TreeShareUser ==
    \E id \in MoveRefs : share_with_user("alice", id, "k1", "bob", TRUE)

TreeShareLink ==
    \E id \in MoveRefs, password \in Passwords :
        share_with_link("alice", id, 0, password, TRUE)

OtherMove ==
    \E id \in MoveRefs, lc \in LinkCreds, body \in MoveInputs :
        UpdateFile("bob", id, lc[1], lc[2], body)

NextMove ==
    \/ TreeUpload
    \/ TreeShareUser
    \/ TreeShareLink
    \/ OtherMove

SpecMove == Init /\ [][NextMove]_vars

(* ------------------------------------------------------------------ *)
(* SpecOwner: two users build trees of their own, files are shared with *)
(* one of them with edit permission, and both upload and move files     *)
(* ------------------------------------------------------------------ *)
AnyUpload ==
    \E uuid \in Users, m \in {Meta(p, d) : p \in {NoFile} \cup MoveRefs, d \in BOOLEAN} :
        /\ nextFile <= MaxMoveFiles
        /\ UploadFile(uuid, m, NoLink, NoCred, 0, FALSE)

AnyShareUser ==
    \E owner \in Users, id \in MoveRefs :
        share_with_user(owner, id, "k1", "bob", TRUE)

AnyMove ==
    \E uuid \in Users, id \in MoveRefs,
       body \in MoveInputs \cup {MoveBody(NoFile, ROOT_FILE_ENCRYPTED_KEY_LENGTH, 0)} :
        UpdateFile(uuid, id, NoLink, NoCred, body)

NextOwner ==
    \/ AnyUpload
    \/ AnyShareUser
    \/ AnyMove

SpecOwner == Init /\ [][NextOwner]_vars

(* ------------------------------------------------------------------ *)
(* SpecSession: users log in, requests carry every kind of Cookie       *)
(* header, time passes and the janitor runs                             *)
(* ------------------------------------------------------------------ *)
Login ==
    \E u \in Users : nextSession <= MaxSessions /\ authenticate_user(u, "password1", NoCode)

Authenticate == \E cookie \in Cookies : SessionAuth(cookie)

Janitor == clean_up

NextSession ==
    \/ Login
    \/ Authenticate
    \/ Janitor
    \/ Tick

SpecSession == Init /\ [][NextSession]_vars

(* ------------------------------------------------------------------ *)
(* SpecChunked: the server opens a store that holds an upload           *)
(* transaction admitted earlier; chunks arrive, the upload is           *)
(* finalized, and the owner uploads single-shot files meanwhile         *)
(* ------------------------------------------------------------------ *)

\* a chunked upload of n chunks of the smallest size, of a root file
ChunkRequest(n) ==
    [upload |-> [Meta(NoFile, FALSE) EXCEPT !.file_nonce = 0],
     file_size |-> n * MIN_CHUNK_SIZE, chunk_size |-> MIN_CHUNK_SIZE, total_chunks |-> n]

\* the store init_db opens: empty, or with one upload transaction of alice
\* that passed the checks of start_chunked_upload while she had used no space
InitChunked ==
    /\ file = <<>>
    /\ share_user = {}
    /\ share_link = {}
    /\ user = [u \in Users |-> UserRow(0)]
    /\ uploads = {}
    /\ now = 0
    /\ nextFile = 1
    /\ nextLink = 1
    /\ session = <<>>
    /\ nextSession = 1
    /\ \E n \in 0 .. MaxChunks :
        IF n = 0
        THEN upload_transaction = <<>> /\ tx_dirs = {} /\ nextTx = 1
        ELSE /\ ChunkRequestValid(ChunkRequest(n))
             /\ check_space(ChunkRequest(n).upload, "alice", ChunkRequest(n).file_size)
             /\ upload_transaction = (1 :> TransactionRow(ChunkRequest(n), "alice", "alice"))
             /\ tx_dirs = {1}
             /\ nextTx = 2
    /\ chunks = <<>>
    /\ inflight = {}
    /\ origin = <<>>
    /\ last = NoRequest

TxRefs == 1 .. MaxTx

ChunkStart ==
    \E n \in 1 .. MaxChunks :
        /\ nextTx <= MaxTx
        /\ StartChunkedUpload("alice", ChunkRequest(n), NoLink, NoCred)

ChunkUpload ==
    \E tx \in TxRefs, chunk_id \in 0 .. MaxChunks, len \in {MIN_CHUNK_SIZE - 1, MIN_CHUNK_SIZE},
       auto_finalize \in BOOLEAN, copy_fails \in BOOLEAN :
        /\ nextFile <= MaxFiles
        /\ UploadChunk("alice", tx, chunk_id, len, auto_finalize, NoLink, NoCred, copy_fails)

ChunkFinalize ==
    \E tx \in TxRefs, busy \in BOOLEAN, copy_fails \in BOOLEAN :
        /\ nextFile <= MaxFiles
        /\ FinalizeChunkedUpload("alice", tx, NoLink, NoCred, busy, copy_fails)

SingleUpload ==
    \E d \in BOOLEAN :
        /\ nextFile <= MaxFiles
        /\ UploadFile("alice", Meta(NoFile, d), NoLink, NoCred, FileSize, FALSE)

NextChunked ==
    \/ ChunkStart
    \/ ChunkUpload
    \/ ChunkFinalize
    \/ SingleUpload

SpecChunked == InitChunked /\ [][NextChunked]_vars

(* ------------------------------------------------------------------ *)
(* SpecChunks: requests of upload_chunk on the stored transaction run   *)
(* side by side, each creating its chunk file and later writing it      *)
(* ------------------------------------------------------------------ *)
MaxInflight == 2

MaxShort == 1

\* the store holds one transaction of alice of up to MaxChunks chunks, the
\* last one up to MaxShort bytes short of the chunk size, for a file at root
\* or in her directory 1
InitChunks ==
    /\ share_user = {} /\ share_link = {}
    /\ uploads = {} /\ now = 0 /\ nextLink = 1
    /\ session = <<>> /\ nextSession = 1
    /\ \E n \in 1 .. MaxChunks, short \in 0 .. MaxShort, p \in {NoFile, 1} :
        LET req == [ChunkRequest(n) EXCEPT !.file_size = @ - short,
                                           !.upload = [Meta(p, FALSE) EXCEPT !.file_nonce = 0]]
        IN
        /\ file = IF p = NoFile THEN <<>>
                  ELSE (1 :> FileRow(Meta(NoFile, TRUE), "alice", 0))
        /\ nextFile = IF p = NoFile THEN 1 ELSE 2
        /\ user = [u \in Users |-> UserRow(IF u = "alice" THEN SumCharge(DOMAIN file) ELSE 0)]
        /\ ChunkRequestValid(req)
        /\ check_space(req.upload, "alice", req.file_size)
        /\ upload_transaction = (1 :> TransactionRow(req, "alice", "alice"))
    /\ tx_dirs = {1} /\ nextTx = 2
    /\ chunks = <<>> /\ inflight = {} /\ origin = <<>> /\ last = NoRequest

\* alice, bob and callers without a session send upload_chunk and finalize
\* requests, up to MaxInflight of them at a time
SpecChunks ==
    /\ InitChunks
    /\ [][\/ \E uuid \in Users \cup {NoUser}, tx \in TxRefs, chunk_id \in 0 - 1 .. MaxChunks :
                /\ Cardinality(inflight) < MaxInflight
                /\ ChunkCreated(uuid, tx, chunk_id, NoLink, NoCred)
          \/ \E u \in inflight, len \in {MIN_CHUNK_SIZE - 1, MIN_CHUNK_SIZE,
                                          MIN_CHUNK_SIZE + 1} :
                /\ u.request.op = "chunk"
                /\ ChunkWritten(u, len)
          \/ \E uuid \in Users \cup {NoUser}, tx \in TxRefs :
                /\ Cardinality(inflight) < MaxInflight
                /\ nextFile <= MaxFiles + 1
                /\ FinalizeCreated(uuid, tx, NoLink, NoCred)
          \/ \E u \in inflight : FinalizeDone(u, FALSE, FALSE)]_vars

(* ------------------------------------------------------------------ *)
(* SpecShare: the server opens a store that holds a tree of the owner's *)
(* files; the owner and another user share files, change permissions   *)
(* and revoke them                                                      *)
(* ------------------------------------------------------------------ *)
MaxShareFiles == 2

\* the trees of n files upload_file can have built: every file lies at the
\* root or in a directory uploaded before it; the last file is a regular file
Trees(n) ==
    {[i \in 1 .. n |->
        FileRow(Meta(par[i], i < n), "alice", IF i < n THEN 0 ELSE FileSize)] :
      par \in {q \in [1 .. n -> 0 .. n - 1] : \A i \in 1 .. n : q[i] < i}}

\* the store init_db opens: a tree of n files uploaded by alice, nothing shared
Stored(n) ==
    /\ file \in Trees(n)
    /\ share_user = {}
    /\ share_link = {}
    /\ user = [u \in Users |->
                UserRow(IF u = "alice" THEN SumCharge(DOMAIN file) ELSE 0)]
    /\ uploads = {f \in DOMAIN file : ~file[f].is_directory}
    /\ now = 0
    /\ nextFile = n + 1
    /\ nextLink = 1
    /\ session = <<>>
    /\ nextSession = 1
    /\ upload_transaction = <<>>
    /\ chunks = <<>>
    /\ tx_dirs = {}
    /\ nextTx = 1
    /\ inflight = {}
    /\ origin = <<>>
    /\ last = NoRequest

InitShared == Stored(MaxShareFiles)

\* file ids a request can name: the files of the tree and one id of no file
ShareRefs == 1 .. MaxShareFiles + 1

ShareUser ==
    \E caller \in Users, id \in ShareRefs, key \in {"k1", "k2"}, receiver \in Users,
       edit \in BOOLEAN :
        share_with_user(caller, id, key, receiver, edit)

\* the password of a share request: absent, empty, or a text; "p w" is a text
\* that url-encoding changes
LinkPasswords == {NoCred, "", "p w"} \cup Passwords

ShareLink ==
    \E caller \in Users, id \in ShareRefs, password \in LinkPasswords, edit \in BOOLEAN :
        share_with_link(caller, id, 0, password, edit)

ReshareUser ==
    \E caller \in Users, id \in ShareRefs, edit \in BOOLEAN :
        update_share_user(caller, "bob", id, edit)

ReshareLink ==
    \E caller \in Users, link_id \in 1 .. MaxLinks, password \in LinkPasswords,
       edit \in BOOLEAN :
        update_share_link(caller, link_id, password, edit)

UnshareUser ==
    \E caller \in Users, id \in ShareRefs : delete_share_user(caller, "bob", id)

UnshareLink ==
    \E caller \in Users, link_id \in 1 .. MaxLinks : delete_share_link(caller, link_id)

NextShare ==
    \/ ShareUser
    \/ ShareLink
    \/ ReshareUser
    \/ ReshareLink
    \/ UnshareUser
    \/ UnshareLink

SpecShare == InitShared /\ [][NextShare]_vars

(* ------------------------------------------------------------------ *)
(* SpecLink: links with and without a password are made, changed and    *)
(* deleted, and anyone opens them                                       *)
(* ------------------------------------------------------------------ *)

\* the values of the cookie named by the link id: none, an url-encoded
\* password, or bytes that decode to no UTF-8 text
LinkCookies == {NoCred, "", "%FF"} \cup {urlencode(p) : p \in LinkPasswords \ {NoCred}}

GetLinkShared ==
    \E link_id \in 1 .. MaxLinks + 1, id \in {NoFile} \cup ShareRefs,
       body \in LinkPasswords, cookie \in LinkCookies :
        get_link_shared_file(link_id, id, 20, FALSE, body, cookie)

NextLink ==
    \/ ShareLink
    \/ ReshareLink
    \/ UnshareLink
    \/ GetLinkShared

SpecLink == InitShared /\ [][NextLink]_vars

(* ------------------------------------------------------------------ *)
(* SpecView: the owner shares files of a stored tree of three files     *)
(* with a user and by links that expire; time passes; the user and the  *)
(* holders of the links list what they are given                        *)
(* ------------------------------------------------------------------ *)
MaxViewFiles == 3

InitView == Stored(MaxViewFiles)

\* file ids a request can name: the files of the tree and one id of no file
ViewRefs == 1 .. MaxViewFiles + 1

ViewShareUser == \E id \in ViewRefs : share_with_user("alice", id, "k1", "bob", FALSE)

ViewShareLink ==
    \E id \in ViewRefs, expires \in {0, 1} :
        share_with_link("alice", id, expires, NoCred, FALSE)

ViewUser ==
    \E id \in {NoFile} \cup ViewRefs, depth \in {1, 20}, include_ancestors \in BOOLEAN :
        get_user_shared_file("bob", id, depth, include_ancestors)

ViewLink ==
    \E link_id \in 1 .. MaxLinks, id \in {NoFile} \cup ViewRefs,
       include_ancestors \in BOOLEAN :
        get_link_shared_file(link_id, id, 20, include_ancestors, NoCred, NoCred)

NextView ==
    \/ ViewShareUser
    \/ ViewShareLink
    \/ ViewUser
    \/ ViewLink
    \/ Tick

SpecView == InitView /\ [][NextView]_vars

(* ------------------------------------------------------------------ *)
(* SpecNormalize: the owner shares files of the stored tree with bob,   *)
(* who lists what is shared with him as a tree                          *)
(* ------------------------------------------------------------------ *)
MaxDepth == 2

SpecNormalize ==
    /\ InitView
    /\ [][\/ \E id \in ViewRefs : share_with_user("alice", id, "k1", "bob", FALSE)
          \/ \E id \in {NoFile} \cup ViewRefs, depth \in 0 .. MaxDepth :
                /\ id # NoFile => UserAccess(id, "bob")
                /\ \E rows \in SharedRows("bob", id, depth) :
                    /\ id # NoFile => rows # <<>>
                    /\ last' = [Response("shared", "bob", id, NoFile, NoLink, NoCred, 0)
                                    EXCEPT !.status = 200, !.arg = rows,
                                           !.files = normalize(rows)]
                /\ UNCHANGED <<file, share_user, share_link, user, uploads, now, nextFile,
                               nextLink, sessionVars, chunkVars, inflight, origin>>]_vars

(* ------------------------------------------------------------------ *)
(* SpecCookie: the owner puts links on files of the stored tree; a      *)
(* visitor opens a link with its password and then sends upload, delete *)
(* and rename requests with the cookie the server has set               *)
(* ------------------------------------------------------------------ *)
SpecCookie ==
    /\ InitShared
    /\ [][\/ \E id \in ShareRefs, password \in {NoCred, "p w"} \cup Passwords,
                edit \in BOOLEAN :
                share_with_link("alice", id, 0, password, edit)
          \/ \E link_id \in 1 .. MaxLinks, body \in {NoCred, "p w"} \cup Passwords :
                get_link_shared_file(link_id, NoFile, 20, FALSE, body, NoCred)
          \/ /\ last.op = "link_shared" /\ last.set_cookie # "none"
             /\ LET link_password == IF Decodable(last.set_cookie)
                                     THEN urldecode(last.set_cookie) ELSE NoCred
                IN \/ \E p \in ShareRefs, d \in BOOLEAN :
                        /\ nextFile <= MaxShareFiles + 1
                        /\ UploadFile(NoUser, Meta(p, d), last.link_id, link_password,
                                      1, FALSE)
                   \/ \E id \in ShareRefs :
                        DeleteFile(NoUser, id, last.link_id, link_password)
                   \/ \E id \in ShareRefs :
                        UpdateFile(NoUser, id, last.link_id, link_password,
                                   RenameBody("n2", NONCE_LENGTH))]_vars

(* ------------------------------------------------------------------ *)
(* SpecSizes: the owner starts chunked uploads whose chunk size and     *)
(* chunk count range over the 64-bit integers                           *)
(* ------------------------------------------------------------------ *)
\* the highest bit a chunk size or chunk count of the requests has set
MaxBit == 62

SizeBits == {0 - 1, 45, MaxBit}

SpecSizes ==
    /\ Init
    /\ [][\E chunk_size \in {Word(MIN_CHUNK_SIZE, 0 - 1), Word(MIN_CHUNK_SIZE + 1, 0 - 1),
                             Word(MIN_CHUNK_SIZE, 44)},
             total_chunks \in {Word(n, b) : n \in 1 .. MaxChunks + 1, b \in SizeBits},
             file_size \in {MIN_CHUNK_SIZE, MIN_CHUNK_SIZE + 1, 2 * MIN_CHUNK_SIZE},
             wraps \in BOOLEAN :
            start_chunked_upload("alice",
                                 [upload |-> ChunkRequest(1).upload, file_size |-> file_size,
                                  chunk_size |-> chunk_size, total_chunks |-> total_chunks],
                                 wraps)]_vars

(* ------------------------------------------------------------------ *)
(* SpecRetry: uploads of the owner arrive and their transactions are    *)
(* run, the store reporting a busy snapshot to any of the attempts      *)
(* ------------------------------------------------------------------ *)
SpecRetry ==
    /\ Init
    /\ [][\* upload_file takes a request; one request is followed at a time
          \/ \E m \in UploadInputs \cup {BadMeta} :
                /\ nextFile <= MaxFiles + 1
                /\ inflight' = {[uuid |-> "alice", upload |-> m, file_size |-> FileSize,
                                 id |-> nextFile, attempt |-> 0]}
                /\ last' = Response("request", "alice", nextFile, m.parent_id,
                                    NoLink, NoCred, 0)
                /\ UNCHANGED <<file, share_user, share_link, user, uploads, now,
                               nextFile, nextLink, sessionVars, chunkVars, origin>>
          \/ \E u \in inflight, busy \in BOOLEAN :
                /\ last.op = "request"
                /\ retry_transaction_fn(u, busy)]_vars

(* ------------------------------------------------------------------ *)
(* SpecRound: the owner of a stored tree reads it and moves files, into *)
(* every file and to the root, with the keys a client wraps for the     *)
(* destination or with the ones it has read                             *)
(* ------------------------------------------------------------------ *)
SpecRound ==
    /\ InitView
    /\ [][\* the client reads the tree (GET /api/file) and keeps what it got
          \/ /\ origin # file
             /\ origin' = file
             /\ last' = Response("read", "alice", NoFile, NoFile, NoLink, NoCred, 200)
             /\ UNCHANGED <<file, share_user, share_link, user, uploads, now, nextFile,
                            nextLink, sessionVars, chunkVars, inflight>>
          \/ \E id \in ViewRefs, p \in {NoFile} \cup ViewRefs :
                UpdateFile("alice", id, NoLink, NoCred,
                           IF p = NoFile
                           THEN MoveBody(NoFile, ROOT_FILE_ENCRYPTED_KEY_LENGTH, 0)
                           ELSE MoveBody(p, CHILD_FILE_ENCRYPTED_KEY_LENGTH, NONCE_LENGTH))
          \* a Move back to where the file was read, with the key read
          \/ \E id \in DOMAIN origin :
                UpdateFile("alice", id, NoLink, NoCred,
                           MoveBody(origin[id].parent_id, origin[id].encrypted_key,
                                    origin[id].key_nonce))]_vars

(* ------------------------------------------------------------------ *)
(* SpecTotp: a user with a session changes the TOTP settings, logins    *)
(* with and without codes arrive, and TOTP steps pass                   *)
(* ------------------------------------------------------------------ *)
SpecTotp ==
    /\ Init
    /\ [][\/ \E password \in {"password1", "password2"}, enable \in BOOLEAN :
                update_totp("alice", [type |-> "Enable", enable |-> enable,
                                      password |-> password])
          \/ \E password \in {"password1", "password2"} :
                update_totp("alice", [type |-> "Regenerate", password |-> password])
          \/ \E secret \in 1 .. MaxSecrets, step \in 0 .. MaxTime :
                update_totp("alice", [type |-> "Verify", code |-> <<secret, step>>])
          \/ \E username \in Users \cup {"mallory"},
                password \in {"password1", "password2"} \cup Passwords,
                code \in {NoCode} \cup ((1 .. MaxSecrets) \X (0 .. MaxTime)) :
                /\ nextSession <= MaxSessions
                /\ authenticate_user(username, password, code)
          \/ /\ now < MaxTime * TotpStep
             /\ now' = now + TotpStep
             /\ last' = Response("tick", NoUser, NoFile, NoFile, NoLink, NoCred, 0)
             /\ UNCHANGED <<file, share_user, share_link, user, uploads, nextFile, nextLink,
                            sessionVars, chunkVars, inflight, origin>>]_vars

(* ------------------------------------------------------------------ *)
(* SpecJanitor: anonymous callers and a registered user upload root     *)
(* files, the user shares hers by link, and the janitor task sleeps and *)
(* runs clean_up in turn                                                *)
(* ------------------------------------------------------------------ *)
\* the janitor task's tokio::time::sleep(Duration::from_secs(300))
Sleep ==
    /\ now < MaxSleeps * JanitorPeriod
    /\ now' = now + JanitorPeriod
    /\ last' = Response("tick", NoUser, NoFile, NoFile, NoLink, NoCred, 0)
    /\ UNCHANGED <<file, share_user, share_link, user, uploads, nextFile, nextLink,
                   sessionVars, chunkVars, inflight, origin>>

SpecJanitor ==
    /\ Init
    \* requests arrive during the first MaxTime periods of the day followed
    /\ [][\/ \E dir \in BOOLEAN :
                /\ nextFile <= MaxFiles /\ now < MaxTime * JanitorPeriod
                /\ UploadFile("alice", Meta(NoFile, dir), NoLink, NoCred, FileSize, FALSE)
          \* an anonymous caller wraps the file key with a symmetric key
          \/ \E dir \in BOOLEAN :
                /\ nextFile <= MaxFiles /\ now < MaxTime * JanitorPeriod
                /\ UploadFile(NoUser,
                              [Meta(NoFile, dir) EXCEPT
                                  !.encrypted_key = CHILD_FILE_ENCRYPTED_KEY_LENGTH],
                              NoLink, NoCred, FileSize, FALSE)
          \/ \E id \in FileRefs, expires \in {0, JanitorPeriod} :
                /\ now < MaxTime * JanitorPeriod
                /\ share_with_link("alice", id, expires, NoCred, FALSE)
          \/ Sleep
          \/ clean_up]_vars

(* ------------------------------------------------------------------ *)
(* SpecDelete: the owner deletes files of the stored tree, each delete  *)
(* running its statements one after the other, while uploads into the   *)
(* tree commit                                                          *)
(* ------------------------------------------------------------------ *)
SpecDelete ==
    /\ InitView
    /\ [][\/ \E id \in ViewRefs :
                inflight = {} /\ DeleteListed("alice", id, NoLink, NoCred)
          \/ \E d \in inflight : DeleteCommitted(d)
          \/ \E p \in ViewRefs, dir \in BOOLEAN :
                /\ nextFile <= MaxViewFiles + 1
                /\ UploadFile("alice", Meta(p, dir), NoLink, NoCred, 0, FALSE)]_vars

(* ------------------------------------------------------------------ *)
(* SpecRevoke: the owner shares files of the stored tree and revokes    *)
(* the shares; the receiver lists what is shared with it and uploads,   *)
(* deletes and renames                                                  *)
(* ------------------------------------------------------------------ *)
Grant ==
    \E id \in ShareRefs, edit \in BOOLEAN : share_with_user("alice", id, "k1", "bob", edit)

GrantLink ==
    \E id \in ShareRefs, edit \in BOOLEAN : share_with_link("alice", id, 0, NoCred, edit)

Revoke == \E id \in ShareRefs : delete_share_user("alice", "bob", id)

RevokeLink == \E link_id \in 1 .. MaxLinks : delete_share_link("alice", link_id)

GetShared ==
    \E id \in {NoFile} \cup ShareRefs, depth \in {0, 20}, include_ancestors \in BOOLEAN :
        get_user_shared_file("bob", id, depth, include_ancestors)

ReceiverDelete ==
    \E id \in ShareRefs, link_id \in {NoLink} \cup 1 .. MaxLinks :
        DeleteFile("bob", id, link_id, NoCred)

ReceiverRename ==
    \E id \in ShareRefs, link_id \in {NoLink} \cup 1 .. MaxLinks :
        UpdateFile("bob", id, link_id, NoCred, RenameBody("n2", NONCE_LENGTH))

ReceiverUpload ==
    \E id \in ShareRefs, link_id \in {NoLink} \cup 1 .. MaxLinks :
        /\ nextFile <= MaxShareFiles + 1
        /\ UploadFile("bob", Meta(id, FALSE), link_id, NoCred, 0, FALSE)

NextRevoke ==
    \/ Grant
    \/ GrantLink
    \/ Revoke
    \/ RevokeLink
    \/ GetShared
    \/ ReceiverDelete
    \/ ReceiverRename
    \/ ReceiverUpload

SpecRevoke == InitShared /\ [][NextRevoke]_vars

(* ------------------------------------------------------------------ *)
(* Properties of the permission checks                                  *)
(* ------------------------------------------------------------------ *)

\* the response a request on a file with this parent chain can get when the
\* caller is not permitted: 404, or none at all when the chain loops
NotPermitted(id, r) ==
    /\ r.status = (IF AncestorsDiverge(id) THEN 0 ELSE 404)
    /\ UNCHANGED <<file, share_user, share_link, user>>
    /\ r.status = 404 => UNCHANGED uploads

\* an edit edge of the request's caller on file a: a share_user row, or the
\* supplied link with its credential
EditEdge(a, r) == SuEdit(a, r.uuid) \/ SlEdit(a, r.link_id, r.cred)

\* the caller holds an edit edge on T and on nothing above T, and is not the owner
DirectEdgeOnly(T, r) ==
    /\ r.uuid = NoUser \/ file[T].owner_id # r.uuid
    /\ EditEdge(T, r)
    /\ \A a \in Ancestors(T) \ {T} : ~EditEdge(a, r) /\ ~OwnedBy(a, r.uuid)

\* a delete or update of X passed the permission check on X
Permitted(X, r) ==
    \/ r.op \in {"delete", "rename"} /\ r.status = 200
    \/ /\ r.op = "move"
       /\ r.status = 404 =>
            r.arg # NoFile /\ MoveRows(r.arg, X, r.uuid, r.link_id) = {}

(* C1: a delete or update by a non-owner whose only edit edge (user share or
   link) sits on the target T itself is answered 404 and leaves T as it was,
   while the same caller's delete or update of any strict descendant of T
   passes the permission check. *)
C1_DirectEdgeDoesNotGrant ==
    [][\A T \in Ids :
        LET r == last' IN
        /\ (r.op \in {"delete", "move", "rename"} /\ r.id = T /\ DirectEdgeOnly(T, r))
            => NotPermitted(T, r)
        /\ (/\ r.op \in {"delete", "move", "rename"}
            /\ r.id \in Descendants(T) \ {T}
            /\ ~AncestorsDiverge(r.id)
            /\ EditEdge(T, r))
            => Permitted(r.id, r)]_vars

\* bob was refused on the very file his user-share edit edge is on
C1_Witness ==
    /\ last.op \in {"delete", "move", "rename"} /\ last.status = 404
    /\ last.uuid = "bob" /\ last.id \in Ids /\ SuEdit(last.id, "bob")

\* bob, holding only a user-share edit edge on directory 1, deleted its child
C1_WitnessDescendant ==
    /\ last.op = "delete" /\ last.uuid = "bob" /\ last.status = 200 /\ last.id = 2
    /\ 1 \in Ids /\ 2 \notin Ids
    /\ \E su \in share_user : su.file_id = 1 /\ su.user_id = "bob" /\ su.edit_permission

\* an edge of any kind on file a: a share_user row of the caller or any link row
\* with edit permission, whatever credential came with the request
AnyEditRow(a, uuid) ==
    \/ \E su \in share_user : su.file_id = a /\ su.user_id = uuid /\ su.edit_permission
    \/ \E sl \in share_link : sl.file_id = a /\ sl.edit_permission

\* the chain a request is checked against: the target's, or the new file's parent's
Chain(r) == IF r.op = "upload" THEN Ancestors(r.arg) ELSE Ancestors(r.id)

ChainHead(r) == IF r.op = "upload" THEN r.arg ELSE r.id

\* on the chain of the request the caller owns nothing and no edge grants edit
ViewOnly(r) ==
    \A a \in Chain(r) : ~OwnedBy(a, r.uuid) /\ ~AnyEditRow(a, r.uuid)

\* the caller has an edit edge on a strict ancestor of the request's target
EditAbove(r) ==
    \E a \in Chain(r) : EditEdge(a, r) /\ (r.op # "upload" => a # r.id)

(* C3: a non-owner all of whose edges on the chain are view-only is never let
   upload into, delete, rename or move the target; a caller with an edit edge
   on a strict ancestor of the target passes the permission check even when
   its nearer edges are view-only. *)
C3_EditPermissionRequired ==
    [][LET r == last' IN
        r.op \in {"upload", "delete", "move", "rename"} /\ ChainHead(r) \in Ids =>
            /\ ViewOnly(r) => NotPermitted(ChainHead(r), r)
            /\ (EditAbove(r) /\ ~AncestorsDiverge(ChainHead(r))) =>
                    IF r.op = "upload" THEN r.status \in {200, 400, 402}
                    ELSE Permitted(r.id, r)]_vars

\* bob, with a view-only share on file 2 and an edit share on its parent 1,
\* renamed file 2
C3_Witness ==
    /\ last.op = "rename" /\ last.uuid = "bob" /\ last.id = 2 /\ last.status = 200
    /\ 2 \in Ids /\ file[2].parent_id = 1 /\ file[2].encrypted_name = "n2"
    /\ \E su \in share_user : su.file_id = 2 /\ su.user_id = "bob" /\ ~su.edit_permission
    /\ \E su \in share_user : su.file_id = 1 /\ su.user_id = "bob" /\ su.edit_permission

\* bob, with only a view share on directory 1, was refused an upload into it
C3_WitnessViewOnly ==
    /\ last.op = "upload" /\ last.uuid = "bob" /\ last.arg = 1 /\ last.status = 404
    /\ \E su \in share_user : su.file_id = 1 /\ su.user_id = "bob" /\ ~su.edit_permission

(* C4: every parent chain ends at a file without parent: no Move ever puts a
   file under itself or under one of its descendants, at the root or nested. *)
C4_NoCycle == \A f \in Ids : ~AncestorsDiverge(f)

\* file a lets the caller of request r edit: it is the caller's, or shared with
\* the caller for edit, or carries the supplied link, unexpired, whose password
\* is absent or is the supplied credential
Grants(a, r) ==
    \/ r.uuid # NoUser /\ file[a].owner_id = r.uuid
    \/ \E su \in share_user : su.file_id = a /\ su.user_id = r.uuid /\ su.edit_permission
    \/ \E sl \in share_link :
        /\ sl.file_id = a /\ sl.edit_permission
        /\ r.link_id # NoLink /\ sl.id = r.link_id
        /\ (sl.expires_at = NoTime \/ sl.expires_at >= now)
        /\ (sl.password_hash = NoHash \/ (r.cred # NoCred /\ sl.password_hash = r.cred))

(* C2: in every permission check of a mutating operation (the parent of an
   upload, the target of a delete or update, the new parent of a Move) a
   share_link row grants only when its id is the supplied link id, it has not
   expired, and its password_hash is null or equals the supplied credential:
   a request that succeeds has, on each chain it was checked against, a file
   that grants under these terms. *)
C2_LinkNeedsCredential ==
    [][LET r == last' IN
        r.status = 200 =>
            /\ (r.op = "upload" /\ r.arg # NoFile) => \E a \in Ancestors(r.arg) : Grants(a, r)
            /\ r.op \in {"delete", "move", "rename"} => \E a \in Ancestors(r.id) : Grants(a, r)
            /\ (r.op = "move" /\ r.arg # NoFile) => \E a \in Ancestors(r.arg) : Grants(a, r)]_vars

(* ------------------------------------------------------------------ *)
(* Properties of sessions                                               *)
(* ------------------------------------------------------------------ *)

\* the idle lifetime of session x has elapsed
IdleElapsed(x) == session[x].last_used_at + session[x].idle_duration < now

(* C8: a session whose idle lifetime has elapsed (last_used_at + idle_duration
   < now) is never authenticated by SessionAuth, whether or not the janitor
   has deleted its row: a request that is authenticated names a session that
   is in the table and whose idle lifetime has not elapsed. *)
C8_ExpiredNeverAuthenticates ==
    [][LET r == last' IN
        (r.op = "auth" /\ r.status = 200) =>
            /\ r.id \in DOMAIN session
            /\ ~IdleElapsed(r.id)
            /\ r.uuid = session[r.id].user_id]_vars

\* a request with the cookie of a session that is still in the table, its idle
\* lifetime elapsed, was refused
C8_Witness ==
    /\ last.op = "auth" /\ last.status = 401
    /\ last.id \in DOMAIN session /\ IdleElapsed(last.id)

(* C9: every successful SessionAuth sets the session's last_used_at to now. *)
C9_AuthRefreshesLastUsed ==
    [][LET r == last' IN
        (r.op = "auth" /\ r.status = 200) =>
            session'[r.id].last_used_at = now]_vars

(* C10: every failure of session validation (no Cookie header, no session
   cookie, a session value that is no UUID, an unknown session id, an expired
   session) is answered 401 with the headers that clear the session cookies. *)
C10_FailureClearsCookie ==
    (/\ last.op = "auth" /\ last.status # 200
     /\ last.cred \in {"absent", "other", "malformed", "session"}) =>
        (last.status = 401 /\ last.set_cookie = "clear")

(* ------------------------------------------------------------------ *)
(* Properties of the upload pipeline                                    *)
(* ------------------------------------------------------------------ *)

(* C7: whenever the single-shot upload_file returns an error after the file
   part was staged, no blob is left at uploads/{file_id} and no file row with
   that id exists. *)
C7_ErrorLeavesNothing ==
    [][LET r == last' IN
        (r.op = "upload" /\ r.status \notin {0, 200}) =>
            /\ r.id \notin uploads'
            /\ r.id \notin DOMAIN file'
            /\ file' = file /\ user' = user]_vars

\* an upload of a file was refused for lack of space after its bytes were staged
C7_Witness ==
    /\ last.op = "upload" /\ last.status = 402
    /\ last.uuid = "alice" /\ last.id \notin uploads /\ last.id \notin Ids
    /\ user["alice"].used_space + FileSize <= user["alice"].total_space
    /\ ~ check_space(Meta(NoFile, FALSE), "alice", FileSize)

(* C5: used_space never exceeds total_space after a committed upload, be it
   single-shot or a chunked upload that was started and finalized. *)
C5_QuotaRespected ==
    \A u \in DOMAIN user : user[u].used_space <= user[u].total_space

\* the request found its upload transaction complete: every chunk counted
Complete(tx) ==
    /\ tx \in DOMAIN upload_transaction
    /\ upload_transaction[tx].current_chunks = upload_transaction[tx].total_chunks

(* C6: a finalize of a transaction whose chunks are all counted ends in one
   of two states: finalized (the transaction row deleted, the file row
   inserted, the blob present) or rolled back (the transaction row kept, no
   file row, no blob); a failure while the chunks are assembled leaves no
   committed file row without its blob. *)
C6_FinalizeAllOrNothing ==
    [][LET r == last' IN
        (r.op = "finalize" /\ Complete(r.arg)) =>
            \/ /\ r.status = 200
               /\ r.arg \notin DOMAIN upload_transaction'
               /\ r.id \in DOMAIN file' /\ r.id \in uploads'
            \/ /\ r.status # 200
               /\ upload_transaction' = upload_transaction
               /\ file' = file /\ r.id \notin uploads']_vars

(* ------------------------------------------------------------------ *)
(* Properties of the answers to callers without permission              *)
(* ------------------------------------------------------------------ *)

\* the file id c names no file
Unfound(c) == c \notin Ids

\* file c exists and nothing on its chain grants the caller of request r
Ungranted(c, r) ==
    /\ c \in Ids /\ ~AncestorsDiverge(c)
    /\ \A a \in Ancestors(c) : ~Grants(a, r)

\* the one answer a caller gets who may not learn whether the file exists
NoOracleAnswer(r, message) == r.status = 404 /\ r.message = message

(* C11: upload into a parent, delete_file and update_file (on the target and
   on the destination of a Move) answer a file id that does not exist exactly
   as they answer a file that exists but grants the caller nothing: the same
   status and the same message in both cases. *)
C11_NoExistenceOracle ==
    [][LET r == last' IN
        /\ (r.op = "upload" /\ r.arg # NoFile /\ (Unfound(r.arg) \/ Ungranted(r.arg, r)))
            => NoOracleAnswer(r, "Parent file not found!")
        /\ (r.op = "delete" /\ (Unfound(r.id) \/ Ungranted(r.id, r)))
            => NoOracleAnswer(r, "File not found")
        /\ (r.op \in {"move", "rename"} /\ (Unfound(r.id) \/ Ungranted(r.id, r)))
            => NoOracleAnswer(r, "Unable to find file to update")
        /\ (/\ r.op = "move" /\ r.arg # NoFile
            /\ ~AncestorsDiverge(r.id)
            /\ TargetRows(r.id, r.uuid, r.link_id, r.cred) # {}
            /\ (Unfound(r.arg) \/ Ungranted(r.arg, r)))
            => NoOracleAnswer(r, "Unable to move file")]_vars

(* ------------------------------------------------------------------ *)
(* Properties of shares                                                 *)
(* ------------------------------------------------------------------ *)

\* the file a request is checked on: the parent of an upload, else the target
Checked(r) == IF r.op = "upload" THEN r.arg ELSE r.id

\* the caller of request r has no edge on file c or above it: it owns none of
\* them, none is shared with it, and the link the request names is on none
NoEdgeLeft(c, r) ==
    \A a \in Ancestors(c) :
        /\ file[a].owner_id # r.uuid
        /\ ~ \E su \in share_user : su.file_id = a /\ su.user_id = r.uuid
        /\ ~ \E sl \in share_link : sl.file_id = a /\ sl.id = r.link_id

(* C12: when the owner revokes the user share (file, user) the row is gone,
   and from then on, as long as the user has no other edge (ownership, a user
   share, a link) on a file or above it, every get_user_shared_file on that
   file and every delete, update or upload into it by that user is answered
   404 and changes nothing. *)
C12_RevokedUserGets404 ==
    [][LET r == last' IN
        /\ (/\ r.op = "unshare_user" /\ is_owner(r.uuid, r.id)
            /\ \E su \in share_user : su.file_id = r.id /\ su.user_id = r.cred)
            => /\ r.status = 200
               /\ ~ \E su \in share_user' : su.file_id = r.id /\ su.user_id = r.cred
        /\ (/\ r.op \in {"shared", "delete", "move", "rename", "upload"}
            /\ Checked(r) \in Ids /\ NoEdgeLeft(Checked(r), r))
            => /\ r.status = 404 /\ r.files = {}
               /\ UNCHANGED <<file, share_user, share_link, user, uploads>>]_vars

\* bob once uploaded a file into a directory shared with him by a user share
\* (no link was ever made); the share is revoked, and his request to list the
\* file he uploaded is answered 404
C12_Witness ==
    /\ last.op = "shared" /\ last.uuid = "bob" /\ last.status = 404
    /\ last.id = MaxShareFiles + 1 /\ last.id \in Ids
    /\ nextLink = 1 /\ UserRoots("bob") = {}

\* the operations that write the share tables
ShareOps ==
    {"share_user", "share_link", "reshare_user", "reshare_link",
     "unshare_user", "unshare_link"}

\* the caller of share request r owns the file the request is about: the file
\* it names, or the file of the link it names
CallerOwns(r) ==
    IF r.op \in {"reshare_link", "unshare_link"}
    THEN \E sl \in share_link : sl.id = r.link_id /\ is_owner(r.uuid, sl.file_id)
    ELSE is_owner(r.uuid, r.id)

(* C13: share_file, update_share_permission and delete_share_permission
   change share_user and share_link only when the caller owns the file; every
   other caller gets an error and both tables stay as they were. *)
C13_OnlyOwnerChangesShares ==
    [][LET r == last' IN
        (r.op \in ShareOps /\ ~ CallerOwns(r))
            => /\ r.status \notin {200, 201}
               /\ UNCHANGED <<share_user, share_link>>]_vars

\* bob, with whom alice's file is shared without edit permission, asked to set
\* the edit flag of his own share and was refused; the row is as it was
C13_Witness ==
    /\ last.op = "reshare_user" /\ last.uuid = "bob" /\ last.cred = "bob"
    /\ last.arg = TRUE /\ last.status = 403
    /\ \E su \in share_user :
        /\ su.file_id = last.id /\ su.user_id = "bob" /\ ~ su.edit_permission
        /\ file[su.file_id].owner_id = "alice"

(* C18: share_file with type "user" is an upsert: after a successful request
   there is exactly one share_user row for the pair (file, user), and it holds
   the encrypted key and the edit flag of that request. *)
C18_ShareUserUpsert ==
    [][LET r == last' IN
        (r.op = "share_user" /\ r.status = 200)
            => {su \in share_user' : su.file_id = r.id /\ su.user_id = r.cred}
                = {[file_id |-> r.id, user_id |-> r.cred,
                    encrypted_key |-> r.arg[1], edit_permission |-> r.arg[2]]}]_vars

\* what update_share_permission is to leave in password_hash
HashAfterUpdate(stored, password) ==
    IF password = NoCred THEN stored
    ELSE IF password = "" THEN NoHash
    ELSE Hash(password)

(* C17: a successful update_share_permission on a link leaves password_hash
   unchanged when the request's password is null, clears it when the password
   is the empty string, and replaces it by the hash of any other password;
   edit_permission is set to the request's value in all three cases. *)
C17_UpdateLinkPassword ==
    [][LET r == last' IN
        (r.op = "reshare_link" /\ r.status = 200)
            => \A sl \in share_link : sl.id = r.link_id
                => [sl EXCEPT !.edit_permission = r.arg,
                              !.password_hash = HashAfterUpdate(sl.password_hash, r.cred)]
                    \in share_link']_vars

\* request r opens a link that has a password, on the link's root or on a file
\* the link gives access to
OpensProtected(r) ==
    /\ r.op = "link_shared"
    /\ \E sl \in share_link : sl.id = r.link_id /\ sl.password_hash # NoHash
    /\ r.id # NoFile => LinkAccess(r.id, r.link_id)

\* the hash of the link request r names
StoredHash(r) == (CHOOSE sl \in share_link : sl.id = r.link_id).password_hash

\* the credential of request r: the password of the body, or the one the
\* cookie carries when the body is absent or empty
Credential(r) == EffectivePassword(r.arg[3], r.cred)

(* C14: get_link_shared_file on a link with a password returns metadata only
   when the password of the body, or the cookie named by the link id when the
   body is absent or empty, verifies against the stored hash; it then sets the
   cookie {link_id} to the url-encoded password. Every other request is
   answered 401 without metadata. *)
C14_LinkPasswordChecked ==
    [][LET r == last' IN
        OpensProtected(r)
            => IF Credential(r) # NoCred /\ StoredHash(r) = Hash(Credential(r))
               THEN r.status = 200 /\ r.set_cookie = urlencode(Credential(r))
               ELSE r.status = 401 /\ r.files = {} /\ r.set_cookie = "none"]_vars

(* C15: a link with a password never accepts an empty credential: a request
   whose body is absent or empty and whose cookie is absent or empty gets no
   metadata and no cookie, and no link stores the hash of the empty string. *)
C15_EmptyCredentialRefused ==
    [][LET r == last' IN
        /\ \A sl \in share_link' : sl.password_hash # Hash("")
        /\ (OpensProtected(r) /\ r.arg[3] \in {NoCred, ""} /\ r.cred \in {NoCred, ""})
            => r.status = 401 /\ r.files = {} /\ r.set_cookie = "none"]_vars

\* a link with a password was opened with an empty body and an empty cookie,
\* and the empty password was verified and refused
C15_Witness ==
    /\ last.op = "link_shared" /\ last.arg[3] = "" /\ last.cred = ""
    /\ last.status = 401 /\ last.message = "Invalid password"
    /\ \E sl \in share_link : sl.id = last.link_id /\ sl.password_hash # NoHash

(* ------------------------------------------------------------------ *)
(* Properties of the file tree                                          *)
(* ------------------------------------------------------------------ *)

\* every file has the owner of its parent
OwnerInherited(files) ==
    \A c \in DOMAIN files :
        files[c].parent_id \in DOMAIN files
            => files[c].owner_id = files[files[c].parent_id].owner_id

(* C19: every file has the owner of its parent. A file uploaded into a
   directory gets that directory's owner_id, and a Move whose destination has
   another owner than the moved file is rejected; a Move to the root by a
   caller who is not the file's owner is rejected as well. *)
C19_OwnerInherited ==
    [][LET r == last' IN
        /\ OwnerInherited(file')
        /\ (r.op = "upload" /\ r.status = 200 /\ r.arg # NoFile)
            => \E f \in DOMAIN file' \ DOMAIN file :
                file'[f].owner_id = file[r.arg].owner_id
        /\ (/\ r.op = "move" /\ r.id \in Ids
            /\ \/ r.arg \in Ids /\ file[r.arg].owner_id # file[r.id].owner_id
               \/ r.arg = NoFile /\ r.uuid # file[r.id].owner_id)
            => r.status # 200 /\ file' = file]_vars

\* bob may edit alice's file through a share above it and asked to move it
\* into a directory of his own; the Move was refused and the file is where it was
C19_Witness ==
    /\ last.op = "move" /\ last.uuid = "bob" /\ last.status = 403
    /\ last.id \in Ids /\ file[last.id].owner_id = "alice"
    /\ last.arg \in Ids /\ file[last.arg].owner_id = "bob" /\ file[last.arg].is_directory
    /\ \E su \in share_user :
        su.user_id = "bob" /\ su.edit_permission /\ su.file_id \in Ancestors(last.id)

(* C20: no file row and no upload transaction has a parent_id that names a
   file which is not a directory, whichever row of the ancestor chain the
   permission query returns. *)
C20_ParentIsDirectory ==
    /\ \A c \in Ids :
        file[c].parent_id \in Ids => file[file[c].parent_id].is_directory
    /\ \A t \in DOMAIN upload_transaction :
        upload_transaction[t].parent_id \in Ids
            => file[upload_transaction[t].parent_id].is_directory

(* ------------------------------------------------------------------ *)
(* Properties of the shared views                                       *)
(* ------------------------------------------------------------------ *)

\* the files shared directly with the caller of view request r
ViewRoots(r) == IF r.op = "shared" THEN UserRoots(r.uuid) ELSE LinkRoots(r.link_id)

\* the share roots through which request r has access: every root when it
\* names no file, else the nearest root at or above the file it names
AccessRoots(r) ==
    IF r.id = NoFile THEN ViewRoots(r)
    ELSE {R \in ViewRoots(r) \cap Ancestors(r.id) :
            ViewRoots(r) \cap Ancestors(r.id) \subseteq Ancestors(R)}

\* the files at or below the roots S
AtOrBelow(S) == {n \in Ids : Ancestors(n) \cap S # {}}

(* C16: no response of get_user_shared_file or get_link_shared_file, with or
   without includeAncestors, holds a node, or the parent_id of a node, that
   lies above the share root through which the caller has access; the share
   root itself is returned with parent_id null; and a link that has expired
   returns no file at all. *)
C16_NothingAboveShareRoot ==
    [][LET r == last' IN
        r.op \in {"shared", "link_shared"}
            => /\ \A n \in r.files :
                    /\ n[1] \in AtOrBelow(AccessRoots(r))
                    /\ n[2] # NoFile => n[2] \in AtOrBelow(AccessRoots(r))
                    /\ n[1] \in AccessRoots(r) => n[2] = NoFile
               /\ (/\ r.op = "link_shared"
                   /\ \A sl \in share_link : sl.id = r.link_id => ~ Unexpired(sl))
                    => r.files = {}]_vars

\* bob listed, with its ancestors, a file below a directory shared with him
\* that lies in a directory not shared with him; the answer holds the shared
\* directory with parent_id null
C16_Witness ==
    /\ last.op = "shared" /\ last.status = 200 /\ last.arg[2] /\ last.id \in Ids
    /\ \E R \in UserRoots("bob") :
        /\ R # last.id /\ R \in Ancestors(last.id)
        /\ file[R].parent_id \in Ids
        /\ <<R, NoFile>> \in last.files

(* C21: in every reachable state a file row has a key_nonce exactly when it
   has a parent_id, whether the row comes from upload_file (a root upload that
   supplies a key_nonce included), from finalize_chunked_upload or from a
   Move of update_file. *)
C21_KeyNonceIffParent ==
    \A f \in Ids : (file[f].key_nonce # 0) = (file[f].parent_id # NoFile)

(* C22: in every reachable state a file row is a directory exactly when its
   file_nonce is null, for the rows upload_file makes and for the rows
   finalize_chunked_upload makes. *)
C22_DirectoryIffNoFileNonce ==
    \A f \in Ids : file[f].is_directory = (file[f].file_nonce = 0)

(* C24: a start_chunked_upload request that passes the size checks, the
   metadata validation, the permission check on its parent and the quota
   check is answered 201 with a transaction id; afterwards the
   upload_transaction row of that id is committed with current_chunks = 0 and
   the directory transactions/{id}/ exists.  The requests are those of a
   registered user for a root file without file_nonce, of every number of
   chunks of the smallest size, made while the user has room for each. *)
C24_StartCommitsTransaction ==
    [][LET r == last' IN
        (/\ r.op = "start" /\ r.uuid # NoUser /\ r.arg = NoFile
         /\ \A n \in 1 .. MaxChunks :
                /\ ChunkRequestValid(ChunkRequest(n))
                /\ check_space(ChunkRequest(n).upload, r.uuid, ChunkRequest(n).file_size))
            => /\ r.status = 201
               /\ r.id \in DOMAIN upload_transaction'
               /\ upload_transaction'[r.id].current_chunks = 0
               /\ r.id \in tx_dirs']_vars

\* request r is an upload_chunk whose chunk is accepted and is the one that
\* brings current_chunks of its transaction to total_chunks
LastChunkAccepted(r) ==
    /\ r.op = "chunk"
    /\ r.arg[1] \in DOMAIN upload_transaction
    /\ upload_transaction[r.arg[1]].current_chunks + 1
        = upload_transaction[r.arg[1]].total_chunks
    /\ <<r.arg[1], r.id>> \notin DOMAIN chunks
    /\ r.status \in {200, 204}

(* C23: when upload_chunk is called with auto_finalize and the accepted chunk
   brings current_chunks to total_chunks, the upload is finalized in the same
   request: where nothing makes finalize fail (the caller owns the root file
   of the transaction and every chunk is copied), the transaction row is gone
   and exactly one file row is added; where finalize fails, the chunk is
   counted all the same and the answer is 204. *)
C23_AutoFinalize ==
    [][LET r == last' IN
        (LastChunkAccepted(r) /\ r.arg[2])
            => LET tx == r.arg[1] IN
               IF ~ r.arg[3] /\ upload_transaction[tx].owner_id = r.uuid
                  /\ upload_transaction[tx].parent_id = NoFile
               THEN /\ tx \notin DOMAIN upload_transaction'
                    /\ Cardinality(DOMAIN file' \ DOMAIN file) = 1
               ELSE \/ tx \notin DOMAIN upload_transaction'
                    \/ /\ r.status = 204
                       /\ upload_transaction'[tx].current_chunks
                            = upload_transaction[tx].total_chunks]_vars

(* C25: after delete_file(T) is answered with success, no file row that was
   in the subtree of T remains and no blob remains in uploads/ for a file that
   belonged to the subtree, also when an upload into the subtree commits
   while the delete runs; a blob that is missing already does not make the
   delete fail. *)
C25_DeleteLeavesNothing ==
    [][LET r == last' IN
        (r.op = "delete" /\ r.status = 200)
            => \A f \in Descendants(r.id) : f \notin DOMAIN file' /\ f \notin uploads']_vars

(* C26: a run of the janitor's clean_up deletes an anonymous file (owner_id
   null) if and only if no share link on it is still active, a link being
   active when it has no expiry or its expiry is not in the past; the blob of
   every file it deletes is removed; a file with a registered owner is never
   deleted. *)
C26_JanitorDeletesOrphans ==
    [][last'.op = "clean_up" =>
        \A f \in Ids :
            /\ (f \notin DOMAIN file') =
                    (/\ file[f].owner_id = NoUser
                     /\ ~ \E sl \in share_link :
                            /\ sl.file_id = f
                            /\ (sl.expires_at = NoTime \/ sl.expires_at >= now))
            /\ f \notin DOMAIN file' => f \notin uploads']_vars

C26_Witness ==
    /\ last.op = "clean_up"
    /\ \E f \in 1 .. nextFile - 1 : f \notin Ids /\ f \notin uploads
    /\ \E g \in Ids : file[g].owner_id = "alice" /\ g \in uploads

(* C27: after every TOTP operation (Regenerate, Verify, Enable or Disable) an
   account with totp_enabled has totp_verified and a secret; in particular a
   Regenerate on an account with TOTP enabled does not leave it enabled with
   an unverified secret. *)
C27_EnabledImpliesVerified ==
    \A u \in Users :
        user[u].totp_enabled => user[u].totp_verified /\ user[u].totp_secret # NoSecret

(* C28: authenticate_user creates a session and sets the session cookie only
   when the password verifies and, if the account has TOTP enabled, a valid
   TOTP code is supplied; a correct password without a code on an account
   with TOTP enabled is answered 307 with the login body echoed and no
   session; a wrong password is never answered 307. *)
C28_LoginNeedsPasswordAndCode ==
    [][LET r == last'
           correct == r.uuid \in Users /\ user[r.uuid].password_hash = Hash(r.cred)
           valid == /\ r.arg # NoCode
                    /\ r.arg[1] = user[r.uuid].totp_secret
                    /\ r.arg[2] \in (now \div TotpStep) - TotpSkew
                                        .. (now \div TotpStep) + TotpSkew
       IN r.op = "login" =>
            /\ (session' # session \/ r.set_cookie # "none")
                    => correct /\ (user[r.uuid].totp_enabled => valid)
            /\ (correct /\ user[r.uuid].totp_enabled /\ r.arg = NoCode)
                    => /\ r.status = 307
                       /\ r.message = r.uuid \o ":" \o r.cred
                       /\ session' = session
            /\ ~correct => r.status # 307]_vars

C28_Witness ==
    /\ last.op = "login" /\ last.status = 200
    /\ user[last.uuid].totp_enabled
    /\ last.arg # NoCode /\ last.arg[2] # now \div TotpStep

(* C29: for the owner of file A, a Move(A, P) followed by a Move of A to its
   original parent with the original encrypted_key and key_nonce both succeed
   and restore parent_id, encrypted_key and key_nonce of A; every other field
   of A and every other file row is as it was before the first Move. *)
C29_MoveRoundTrip ==
    [][LET A == last.id
           r == last'
       IN (/\ last.op = "move" /\ last.status = 200 /\ last.uuid = "alice"
           \* the table is the one read, but for the three columns of A
           /\ DOMAIN origin = DOMAIN file
           /\ [file EXCEPT ![A].parent_id = origin[A].parent_id,
                           ![A].encrypted_key = origin[A].encrypted_key,
                           ![A].key_nonce = origin[A].key_nonce] = origin
           /\ file[A].owner_id = "alice"
           \* the step is the Move back
           /\ r.op = "move" /\ r.uuid = "alice" /\ r.id = A
           /\ r.arg = origin[A].parent_id
           /\ r.status = 200 => /\ file'[A].encrypted_key = origin[A].encrypted_key
                                /\ file'[A].key_nonce = origin[A].key_nonce)
            => r.status = 200 /\ file' = origin]_vars

(* C30: a metadata transaction of the upload pipeline that hits a
   busy-snapshot conflict is rolled back and run again; the loop ends after
   at most 5 retries; the conflict is reported to the client only after the
   retries are exhausted; every other error (permission, quota, invalid
   parent) is returned when it first occurs, without a retry. *)
C30_RetryBounded ==
    [][\A u \in inflight :
        LET r == last'
            retried == inflight' = {[u EXCEPT !.attempt = @ + 1]}
        IN
        /\ u.attempt <= 5
        \* a retry follows a rollback and answers nothing
        /\ retried => /\ u.attempt < 5
                      /\ UNCHANGED <<file, share_link, user, uploads, last>>
        \* a conflict is answered only after the fifth retry
        /\ (r.op = "upload" /\ r.status = 500) => u.attempt = 5
        \* the other errors end the request in the attempt that met them
        /\ (r.op = "upload" /\ r.status \in {400, 402, 404})
                => /\ inflight' = inflight
                   /\ file' = file]_vars

C30_Witness ==
    /\ last.op = "upload" /\ last.status = 500
    /\ \E u \in inflight : u.attempt = 5 /\ u.id = last.id

(* C31: under every interleaving of upload_chunk requests on one transaction,
   current_chunks equals the number of distinct chunk indices whose upload was
   accepted (the chunk files that no request is still writing), an index is
   accepted at most once, and current_chunks never exceeds total_chunks. *)
C31_CounterMatchesChunks ==
    \A tx \in DOMAIN upload_transaction :
        LET writing == {u.request.id : u \in {v \in inflight : v.request.op = "chunk" /\ v.request.arg[1] = tx}}
            accepted == {c[2] : c \in {d \in DOMAIN chunks : d[1] = tx}} \ writing
        IN /\ upload_transaction[tx].current_chunks = Cardinality(accepted)
           /\ upload_transaction[tx].current_chunks <= upload_transaction[tx].total_chunks

C31_Witness ==
    /\ last.op = "chunk" /\ last.status = 204
    /\ \E u \in inflight :
        u.request.op = "chunk" /\ u.request.arg[1] = last.arg[1] /\ u.request.id # last.id
    /\ last.arg[1] \in DOMAIN upload_transaction
    /\ upload_transaction[last.arg[1]].current_chunks = 1

\* the bytes in the chunk files 0 .. n - 1 of transaction tx
RECURSIVE SumOfChunks(_, _)
SumOfChunks(tx, n) ==
    IF n = 0 THEN 0 ELSE chunks[<<tx, n - 1>>] + SumOfChunks(tx, n - 1)

(* C32: upload_chunk accepts chunk i only if 0 <= i < total_chunks, its length
   is chunk_size when i is not the last index and
   (total_chunks - 1) * chunk_size + length = expected_size when it is the
   last; so once current_chunks = total_chunks the lengths of the accepted
   chunks add up to expected_size. *)
C32_AcceptedLengths ==
    /\ [][last'.op = "chunk" /\ last'.status = 204 /\ inflight' # inflight
            => LET tx == last'.arg[1]
                   i == last'.id
                   t == upload_transaction[tx]
                   len == chunks'[<<tx, i>>]
               IN /\ 0 <= i /\ i < t.total_chunks
                  /\ i # t.total_chunks - 1 => len = t.chunk_size
                  /\ i = t.total_chunks - 1
                        => (t.total_chunks - 1) * t.chunk_size + len = t.expected_size]_vars
    /\ [](\A tx \in DOMAIN upload_transaction :
            upload_transaction[tx].current_chunks = upload_transaction[tx].total_chunks
                => SumOfChunks(tx, upload_transaction[tx].total_chunks)
                        = upload_transaction[tx].expected_size)

C32_Witness ==
    /\ last.op = "chunk" /\ last.status = 204
    /\ 1 \in DOMAIN upload_transaction
    /\ upload_transaction[1].current_chunks = upload_transaction[1].total_chunks
    /\ upload_transaction[1].total_chunks = MaxChunks
    /\ chunks[<<1, MaxChunks - 1>>] < upload_transaction[1].chunk_size

(* C33: an upload_chunk that is rejected (index out of range, chunk already
   uploaded, body too large or of the wrong length, no permission) leaves the
   transaction as it was: the row and current_chunks are unchanged, the chunk
   files that are accepted or being written by other requests are untouched,
   and no file stays behind for its own index, which can be uploaded later. *)
C33_RejectedChunkLeavesNothing ==
    [][last'.op = "chunk" /\ last'.status \notin {200, 204} /\ last' # last
        => LET own == {<<u.request.arg[1], u.request.id>> : u \in inflight \ inflight'}
           IN /\ upload_transaction' = upload_transaction
              /\ tx_dirs' = tx_dirs
              /\ DOMAIN chunks' = DOMAIN chunks \ own
              /\ \A p \in DOMAIN chunks' : chunks'[p] = chunks[p]
              /\ <<last'.arg[1], last'.id>> \in DOMAIN chunks'
                    => <<last'.arg[1], last'.id>> \notin own]_vars

C33_Witness ==
    /\ last.op = "chunk" /\ last.status = 400
    /\ 1 \in DOMAIN upload_transaction
    /\ last.id \in 0 .. upload_transaction[1].total_chunks - 1
    /\ <<1, last.id>> \notin DOMAIN chunks
    /\ \E u \in inflight : u.request.op = "chunk" /\ <<1, u.request.id>> \in DOMAIN chunks
    /\ upload_transaction[1].current_chunks = 0

(* C34: finalize_chunked_upload on a transaction id that is not known, or on
   a transaction with current_chunks # total_chunks, answers 400 and changes
   nothing: the transaction row stays, no file row is inserted and no file is
   left in uploads/. *)
C34_RefusedFinalizeLeavesNothing ==
    [][(/\ last'.op = "finalize"
        /\ \/ last'.arg \notin DOMAIN upload_transaction
           \/ upload_transaction[last'.arg].current_chunks
                # upload_transaction[last'.arg].total_chunks)
        => (/\ last'.status = 400
            /\ upload_transaction' = upload_transaction
            /\ file' = file
            /\ uploads' = uploads)]_vars

(* C35: upload_chunk and finalize_chunked_upload succeed only for a caller
   who is the uploader or owner recorded in the transaction or who holds an
   edit edge on the parent of the transaction; another caller, or one without
   a session, who only knows the transaction id can neither add a chunk to nor
   finalize a transaction whose parent is the root. *)
C35_OnlyUploaderOrEditor ==
    [][last'.op \in {"chunk", "finalize"} /\ last'.status \in {200, 204} /\ last' # last
        => LET tx == IF last'.op = "chunk" THEN last'.arg[1] ELSE last'.arg
               t == upload_transaction[tx]
           IN \/ last'.uuid # NoUser /\ last'.uuid \in {t.owner_id, t.uploader_id}
              \/ /\ t.parent_id # NoFile
                 /\ ParentRows(t.parent_id, last'.uuid, last'.link_id, last'.cred) # {}]_vars

(* C37: of several finalize calls running side by side on one complete
   transaction at most one inserts a file row; every other call (one whose
   output file was created before the winner created its own) answers with
   an error and leaves neither a file row nor an output file of its own in
   uploads/. *)
C37_OneFinalizeWins ==
    /\ [](Cardinality({f \in DOMAIN file : ~file[f].is_directory}) <= 1)
    /\ [][(/\ last'.op = "finalize" /\ inflight' # inflight
           /\ \E w \in DOMAIN file : ~file[w].is_directory /\ w > last'.id)
            => (/\ last'.status # 200
                /\ file' = file
                /\ last'.id \notin uploads')]_vars

(* C36: normalize, applied to rows in which every parent comes before its
   children (the depth-ascending rows of the shared listing, also when a
   directory and one of its descendants are both shared directly), returns a
   map that holds each file id of the rows once, a list of roots that holds
   exactly the ids whose parent_id is null, each once, and for every node a
   list of children that holds exactly the ids whose parent_id is that node,
   each once. *)
C36_NormalizeIsATree ==
    (last.op = "shared" /\ last.status = 200) =>
        LET map == last.files.map
            root == last.files.root
            Once(q) == \A i, j \in 1 .. Len(q) : i # j => q[i] # q[j]
            Range(q) == {q[i] : i \in 1 .. Len(q)}
        IN /\ DOMAIN map = {last.arg[i].id : i \in 1 .. Len(last.arg)}
           /\ Once(root)
           /\ Range(root) = {n \in DOMAIN map : map[n].parent_id = NoFile}
           /\ \A n \in DOMAIN map :
                /\ Once(map[n].children)
                /\ Range(map[n].children) = {c \in DOMAIN map : map[c].parent_id = n}

(* C38: the cookie {link_id}=<password> that get_link_shared_file sets after
   the password of a link was verified is accepted as the credential of the
   link by upload_file, delete_file and update_file: a request that presents
   this cookie and the link id, for a link with a password and edit permission
   that has not expired, on a file strictly below the file of the link (or an
   upload into the file of the link), passes the permission check. *)
C38_CookieIsCredential ==
    [][(/\ last.op = "link_shared" /\ last.status = 200 /\ last.set_cookie # "none"
        /\ last'.op \in {"upload", "delete", "rename"}
        /\ last'.link_id = last.link_id
        /\ last'.cred = urldecode(last.set_cookie)
        /\ \E sl \in share_link :
            /\ sl.id = last.link_id /\ Unexpired(sl)
            /\ sl.password_hash # NoHash /\ sl.edit_permission
            /\ IF last'.op = "upload"
               THEN sl.file_id \in Ancestors(last'.arg)
               ELSE sl.file_id \in Ancestors(last'.id) \ {last'.id})
        => last'.status \notin {401, 403, 404}]_vars

(* C39: the size check of start_chunked_upload rejects every request that
   violates (total_chunks - 1) * chunk_size < file_size
   <= total_chunks * chunk_size, for every 64-bit chunk_size >= 2^19 and
   total_chunks >= 1, those whose products leave the 64-bit range included. *)
C39_SizeCheckRejects ==
    LET file_size == Word(last.arg[1], 0 - 1) \o [i \in 1 .. 8 |-> 0]
        chunk_size == last.arg[2]
        total_chunks == last.arg[3]
        \* the two products in full, 16 bytes each
        holds == /\ Below(Product(chunk_size, Less1(total_chunks), 16), file_size)
                 /\ ~Below(Product(chunk_size, total_chunks, 16), file_size)
    IN (/\ last.op = "start" /\ last.message # "panic"
        /\ chunk_size[8] < 128 /\ ~Below(chunk_size, Word(MIN_CHUNK_SIZE, 0 - 1))
        /\ total_chunks[8] < 128 /\ total_chunks # Word(0, 0 - 1)
        /\ ~holds)
        => /\ last.status = 403
           /\ last.message = "File size does not match provided chunk constraints"

====
